---- MODULE Spec2Model ----
(***************************************************************************)
(* Model of the cssu expression evaluator (src/src/evaluator.ts), the      *)
(* parser of declaration values (src/src/index.ts), the route compiler's   *)
(* request handler (createHandler) and the application lifecycle           *)
(* (createApp / stopServer).                                               *)
(*                                                                         *)
(* Strings are sequences of one-character strings, so that trim,           *)
(* toUpperCase, toLowerCase, startsWith and includes are computed as the   *)
(* code computes them.  Runtime values are tagged records, one tag per     *)
(* JavaScript type the evaluator distinguishes.                            *)
(***************************************************************************)
EXTENDS Integers, Sequences, FiniteSets, TLC

----------------------------------------------------------------------------
(* Bounds *)

\* highest AUTOINCREMENT row id the table may hand out
MaxRowId == 2

\* number of connections initDatabase may open in one run
MaxOpens == 2

\* the longest run of digits in a numeral handed to the parser
MaxDigits == 2

\* the most terms a condition handed to the parser joins with connectives
MaxTerms == 3

----------------------------------------------------------------------------
(* String constants *)

S_id == <<"i", "d">>
S_name == <<"n", "a", "m", "e">>
S_error == <<"e", "r", "r", "o", "r">>
S_changes == <<"c", "h", "a", "n", "g", "e", "s">>
S_lastInsertRowid == <<"l", "a", "s", "t", "I", "n", "s", "e", "r", "t", "R", "o", "w", "i", "d">>
S_message == <<"m", "e", "s", "s", "a", "g", "e">>
S_role == <<"r", "o", "l", "e">>
S_user == <<"u", "s", "e", "r">>
S_admin == <<"a", "d", "m", "i", "n">>
S_code == <<"c", "o", "d", "e">>
S_q == <<"q">>
S_a == <<"a">>
S_b == <<"b">>
S_c == <<"c">>
S_r == <<"r">>
S_v == <<"v">>
S_yes == <<"y", "e", "s">>
S_no == <<"n", "o">>
S_xUserRole == <<"x", "-", "u", "s", "e", "r", "-", "r", "o", "l", "e">>
S_XUserRole == <<"X", "-", "U", "s", "e", "r", "-", "R", "o", "l", "e">>
S_1 == <<"1">>
S_9 == <<"9">>
S_404 == <<"4", "0", "4">>
S_abc == <<"a", "b", "c">>
S_bob == <<"b", "o", "b">>
S_ann == <<"a", "n", "n">>
S_NotFound == <<"N", "o", "t", " ", "f", "o", "u", "n", "d">>
S_Welcome == <<"W", "e", "l", "c", "o", "m", "e">>
S_Denied == <<"A", "c", "c", "e", "s", "s", " ", "d", "e", "n", "i", "e", "d">>
S_SELECT == <<"S", "E", "L", "E", "C", "T">>
S_INSERT == <<"I", "N", "S", "E", "R", "T">>
S_UPDATE == <<"U", "P", "D", "A", "T", "E">>
S_DELETE == <<"D", "E", "L", "E", "T", "E">>
S_LIMIT1 == <<"L", "I", "M", "I", "T", " ", "1">>
S_true == <<"t", "r", "u", "e">>
S_false == <<"f", "a", "l", "s", "e">>
S_null == <<"n", "u", "l", "l">>
S_undefined == <<"u", "n", "d", "e", "f", "i", "n", "e", "d">>
S_objectObject == <<"[", "o", "b", "j", "e", "c", "t", " ", "O", "b", "j", "e", "c", "t", "]">>
MsgNotConfigured == <<"D", "a", "t", "a", "b", "a", "s", "e", " ", "n", "o", "t", " ", "c", "o", "n", "f", "i", "g", "u", "r", "e", "d">>
MsgUnknown == <<"U", "n", "k", "n", "o", "w", "n", " ", "e", "r", "r", "o", "r">>
MsgSyntax == <<"s", "y", "n", "t", "a", "x", " ", "e", "r", "r", "o", "r">>
MsgNoStatement == <<"T", "h", "e", " ", "s", "u", "p", "p", "l", "i", "e", "d", " ", "S", "Q", "L", " ", "s", "t", "r", "i", "n", "g", " ", "c", "o", "n", "t", "a", "i", "n", "s", " ", "n", "o", " ", "s", "t", "a", "t", "e", "m", "e", "n", "t", "s">>
MsgNoTable == <<"n", "o", " ", "s", "u", "c", "h", " ", "t", "a", "b", "l", "e", ":", " ", "t">>
MsgNotNull == <<"N", "O", "T", " ", "N", "U", "L", "L", " ", "c", "o", "n", "s", "t", "r", "a", "i", "n", "t", " ", "f", "a", "i", "l", "e", "d", ":", " ", "t", ".", "n", "a", "m", "e">>
MsgTooFew == <<"T", "o", "o", " ", "f", "e", "w", " ", "p", "a", "r", "a", "m", "e", "t", "e", "r", " ", "v", "a", "l", "u", "e", "s", " ", "w", "e", "r", "e", " ", "p", "r", "o", "v", "i", "d", "e", "d">>
MsgTooMany == <<"T", "o", "o", " ", "m", "a", "n", "y", " ", "p", "a", "r", "a", "m", "e", "t", "e", "r", " ", "v", "a", "l", "u", "e", "s", " ", "w", "e", "r", "e", " ", "p", "r", "o", "v", "i", "d", "e", "d">>
MsgNotInitialized == <<"D", "a", "t", "a", "b", "a", "s", "e", " ", "n", "o", "t", " ", "i", "n", "i", "t", "i", "a", "l", "i", "z", "e", "d">>
MsgNoData == <<"T", "h", "i", "s", " ", "s", "t", "a", "t", "e", "m", "e", "n", "t", " ", "d", "o", "e", "s", " ", "n", "o", "t", " ", "r", "e", "t", "u", "r", "n", " ", "d", "a", "t", "a", ".", " ", "U", "s", "e", " ", "r", "u", "n", "(", ")", " ", "i", "n", "s", "t", "e", "a", "d">>
MsgReturnsData == <<"T", "h", "i", "s", " ", "s", "t", "a", "t", "e", "m", "e", "n", "t", " ", "r", "e", "t", "u", "r", "n", "s", " ", "d", "a", "t", "a", ".", " ", "U", "s", "e", " ", "g", "e", "t", "(", ")", ",", " ", "a", "l", "l", "(", ")", ",", " ", "o", "r", " ", "i", "t", "e", "r", "a", "t", "e", "(", ")", " ", "i", "n", "s", "t", "e", "a", "d">>
MsgExists == <<"t", "a", "b", "l", "e", " ", "t", " ", "a", "l", "r", "e", "a", "d", "y", " ", "e", "x", "i", "s", "t", "s">>
MsgBind == <<"S", "Q", "L", "i", "t", "e", "3", " ", "c", "a", "n", " ", "o", "n", "l", "y", " ", "b", "i", "n", "d", " ", "n", "u", "m", "b", "e", "r", "s", ",", " ", "s", "t", "r", "i", "n", "g", "s", ",", " ", "b", "i", "g", "i", "n", "t", "s", ",", " ", "b", "u", "f", "f", "e", "r", "s", ",", " ", "a", "n", "d", " ", "n", "u", "l", "l">>
Q_SelectAll == <<"S", "E", "L", "E", "C", "T", " ", "*", " ", "F", "R", "O", "M", " ", "t">>
Q_SelectById == <<"S", "E", "L", "E", "C", "T", " ", "*", " ", "F", "R", "O", "M", " ", "t", " ", "W", "H", "E", "R", "E", " ", "i", "d", " ", "=", " ", "?">>
Q_SelectLimit == <<"S", "E", "L", "E", "C", "T", " ", "*", " ", "F", "R", "O", "M", " ", "t", " ", "L", "I", "M", "I", "T", " ", "1">>
Q_selectLower == <<" ", " ", "s", "e", "l", "e", "c", "t", " ", "*", " ", "f", "r", "o", "m", " ", "t", " ", "l", "i", "m", "i", "t", " ", "1">>
Q_SelectIn == <<"S", "E", "L", "E", "C", "T", " ", "*", " ", "F", "R", "O", "M", " ", "t", " ", "W", "H", "E", "R", "E", " ", "i", "d", " ", "I", "N", " ", "(", "?", ",", " ", "?", ")">>
Q_Insert == <<"I", "N", "S", "E", "R", "T", " ", "I", "N", "T", "O", " ", "t", " ", "(", "n", "a", "m", "e", ")", " ", "V", "A", "L", "U", "E", "S", " ", "(", "?", ")">>
Q_insertLower == <<" ", "i", "n", "s", "e", "r", "t", " ", "i", "n", "t", "o", " ", "t", " ", "(", "n", "a", "m", "e", ")", " ", "v", "a", "l", "u", "e", "s", " ", "(", "?", ")">>
Q_Update == <<"U", "P", "D", "A", "T", "E", " ", "t", " ", "S", "E", "T", " ", "n", "a", "m", "e", " ", "=", " ", "?", " ", "W", "H", "E", "R", "E", " ", "i", "d", " ", "=", " ", "?">>
Q_Delete == <<"D", "E", "L", "E", "T", "E", " ", "F", "R", "O", "M", " ", "t", " ", "W", "H", "E", "R", "E", " ", "i", "d", " ", "=", " ", "?">>
Q_Replace == <<"R", "E", "P", "L", "A", "C", "E", " ", "I", "N", "T", "O", " ", "t", " ", "(", "n", "a", "m", "e", ")", " ", "V", "A", "L", "U", "E", "S", " ", "(", "?", ")">>
Q_Empty == <<>>
Q_Bad == <<"S", "E", "L", "E", "C", " ", "*", " ", "F", "R", "O", "M", " ", "t">>
S_5 == <<"5">>
S_7 == <<"7">>
S_1p5 == <<"1", ".", "5">>
S_XUSERROLE == <<"X", "-", "U", "S", "E", "R", "-", "R", "O", "L", "E">>
T_JsonEmpty == <<"{", "}">>
T_JsonNotFound == <<"{", " ", "\"", "e", "r", "r", "o", "r", "\"", ":", " ", "\"", "N", "o", "t", " ", "f", "o", "u", "n", "d", "\"", " ", "}">>
T_JsonList == <<"[", "1", ",", " ", "2", "]">>
T_OnePoint == <<"1", ".">>
T_PointFive == <<".", "5">>
T_Plus1 == <<"+", "1">>
T_True == <<"T", "r", "u", "e">>
T_Quoted7 == <<"\"", "7", "\"">>
T_BodyParen == <<"b", "o", "d", "y", "(", "\"", "a", ")", "b", "\"", ")">>
T_QueryParen == <<"q", "u", "e", "r", "y", "(", "'", ")", "'", ")">>
T_VarX == <<"v", "a", "r", "(", "-", "-", "x", ")">>
T_ParamId == <<"p", "a", "r", "a", "m", "(", ":", "i", "d", ")">>
T_HeaderRole == <<"h", "e", "a", "d", "e", "r", "(", "x", "-", "u", "s", "e", "r", "-", "r", "o", "l", "e", ")">>
T_IfNested == <<"i", "f", "(", "-", "-", "a", ":", " ", "q", "u", "e", "r", "y", "(", "q", ")", ";", " ", "e", "l", "s", "e", ":", " ", "0", ")">>
T_JsonIf == <<"j", "s", "o", "n", "(", "i", "f", "(", "-", "-", "a", ":", " ", "\"", "(", "\"", ":", " ", "1", ")", ")">>
T_HtmlSmile == <<"h", "t", "m", "l", "(", "\"", "<", "p", ">", ":", ")", "<", "/", "p", ">", "\"", ")">>
T_JsonEmptyCall == <<"j", "s", "o", "n", "(", "{", "}", ")">>
T_BodyName == <<"b", "o", "d", "y", "(", "n", "a", "m", "e", ")">>
S_body == <<"b", "o", "d", "y">>
S_query == <<"q", "u", "e", "r", "y">>
S_var == <<"v", "a", "r">>
S_param == <<"p", "a", "r", "a", "m">>
S_header == <<"h", "e", "a", "d", "e", "r">>
S_if == <<"i", "f">>
S_json == <<"j", "s", "o", "n">>
S_html == <<"h", "t", "m", "l">>
T_a == <<"-", "-", "a">>
T_b == <<"-", "-", "b">>
T_cIs1 == <<"-", "-", "c", " ", "=", " ", "1">>
T_IfTwoElse == <<"i", "f", "(", "-", "-", "a", ":", " ", "1", ";", " ", "e", "l", "s", "e", ":", " ", "2", ";", " ", "e", "l", "s", "e", ":", " ", "3", ")">>
T_IfOneElse == <<"i", "f", "(", "-", "-", "a", ":", " ", "1", ";", " ", "e", "l", "s", "e", ":", " ", "2", ")">>
T_IfElseFirst == <<"i", "f", "(", "e", "l", "s", "e", ":", " ", "\"", "x", "\"", ";", " ", "-", "-", "a", ":", " ", "1", ";", " ", "e", "l", "s", "e", ":", " ", "n", "u", "l", "l", ")">>
T_IfNoElse == <<"i", "f", "(", "-", "-", "a", ":", " ", "\"", "x", ";", "y", "\"", ";", " ", "-", "-", "b", " ", ">", " ", "2", ":", " ", "v", "a", "r", "(", "-", "-", "c", ")", ")">>
T_else == <<"e", "l", "s", "e", ":">>
T_10 == <<"1", "0">>
T_Minus3 == <<"-", "3">>
T_QuotedXY == <<"\"", "x", " ", "y", "\"">>
T_Single7 == <<"'", "7", "'">>
S_xy == <<"x", " ", "y">>
S_10 == <<"1", "0">>
S_sql == <<"s", "q", "l">>
T_SqlNone == <<"s", "q", "l", "(", ")">>
T_SqlBare == <<"s", "q", "l", "(", "S", "E", "L", "E", "C", "T", " ", "*", " ", "F", "R", "O", "M", " ", "t", ")">>
T_SqlVarOnly == <<"s", "q", "l", "(", "v", "a", "r", "(", "-", "-", "q", ")", ",", " ", "1", ")">>
T_SqlSpaced == <<"s", "q", "l", "(", " ", ")">>
T_SqlById == <<"s", "q", "l", "(", "\"", "S", "E", "L", "E", "C", "T", " ", "*", " ", "F", "R", "O", "M", " ", "t", " ", "W", "H", "E", "R", "E", " ", "i", "d", " ", "=", " ", "?", "\"", ",", " ", "p", "a", "r", "a", "m", "(", ":", "i", "d", ")", ")">>
T_DoubleAbc == <<"\"", "a", "b", "c", "\"">>
T_SingleAbc == <<"'", "a", "b", "c", "'">>
T_TwoLayers == <<"\"", "'", "a", "b", "c", "'", "\"">>
T_OpenOnly == <<"\"", "a", "b", "c">>
T_CloseOnly == <<"a", "b", "c", "'">>
T_Mismatched == <<"\"", "a", "b", "c", "'">>
T_Inner == <<"i", "t", "'", "s">>
T_BraceBad == <<"{", "b", "a", "d">>
T_BracketQuote == <<"[", "1", ",", " ", "\"", "a", "\"">>
T_PaddedQuoted == <<" ", " ", "\"", "a", " ", "b", "\"", " ", " ">>
S_w == <<"w">>

----------------------------------------------------------------------------
(* JavaScript string primitives *)

LowerChars == <<"a","b","c","d","e","f","g","h","i","j","k","l","m",
                "n","o","p","q","r","s","t","u","v","w","x","y","z">>

UpperChars == <<"A","B","C","D","E","F","G","H","I","J","K","L","M",
                "N","O","P","Q","R","S","T","U","V","W","X","Y","Z">>

WhiteSpace == {" ", "\t", "\n", "\r"}

\* the member of a one-element set: {F(x) : x \in {e}} computes e once and
\* F of its value
Only(S) == CHOOSE x \in S : TRUE

IndexIn(c, s) == CHOOSE i \in 1..Len(s) : s[i] = c

\* the letter tables of String.prototype.toUpperCase / toLowerCase (ASCII)
UpperOf == [c \in {LowerChars[i] : i \in 1..26} |-> UpperChars[IndexIn(c, LowerChars)]]

LowerOf == [c \in {UpperChars[i] : i \in 1..26} |-> LowerChars[IndexIn(c, UpperChars)]]

UpperChar(c) == IF c \in DOMAIN UpperOf THEN UpperOf[c] ELSE c

LowerChar(c) == IF c \in DOMAIN LowerOf THEN LowerOf[c] ELSE c

toUpperCase(s) == Only({[i \in 1..Len(x) |-> UpperChar(x[i])] : x \in {s}})

\* a text left in the casing it was written in
AsSpelled(s) == s

toLowerCase(s) == Only({[i \in 1..Len(x) |-> LowerChar(x[i])] : x \in {s}})

SetMin(S) == CHOOSE i \in S : \A j \in S : i <= j

SetMax(S) == CHOOSE i \in S : \A j \in S : j <= i

\* s without the blanks before position lo = min(keep) and after hi = max(keep)
Between(s, keep) == IF keep = {} THEN <<>> ELSE SubSeq(s, SetMin(keep), SetMax(keep))

trim(s) == Only({Between(s, keep) : keep \in {{i \in 1..Len(s) : s[i] \notin WhiteSpace}}})

startsWith(s, p) == Len(s) >= Len(p) /\ SubSeq(s, 1, Len(p)) = p

includes(s, p) == \E i \in 1..(Len(s) - Len(p) + 1) : SubSeq(s, i, i + Len(p) - 1) = p

----------------------------------------------------------------------------
(* Runtime values *)

Undefined == [t |-> "undefined"]

Null == [t |-> "null"]

NaN == [t |-> "nan"]

Bool(b) == [t |-> "boolean", v |-> b]

Num(n) == [t |-> "number", v |-> n]

\* a finite number that is not an integer: sign, integer part and the digits
\* after the point (at least one, the last not "0")
Dec(neg, whole, frac) == [t |-> "decimal", neg |-> neg, whole |-> whole, frac |-> frac]

Str(s) == [t |-> "string", v |-> s]

Arr(xs) == [t |-> "array", v |-> xs]

Obj(f) == [t |-> "object", v |-> f]

EmptyMap == [k \in {} |-> Undefined]

Map1(k, x) == [j \in {k} |-> x]

Map2(k1, x1, k2, x2) == [j \in {k1, k2} |-> IF j = k1 THEN x1 ELSE x2]

\* obj[key] : a missing key reads as undefined
Get(map, k) == IF k \in DOMAIN map THEN map[k] ELSE Undefined

\* obj[key] = value
Put(map, k, x) == [j \in (DOMAIN map) \cup {k} |-> IF j = k THEN x ELSE map[j]]

----------------------------------------------------------------------------
(* Value coercions used by the handler: String(x), Array.prototype.join,   *)
(* Number(x)                                                               *)

Digits == <<"0","1","2","3","4","5","6","7","8","9">>

IsDigit(c) == \E i \in 1..10 : Digits[i] = c

DigitVal(c) == IndexIn(c, Digits) - 1

RECURSIVE NatToStr(_)
NatToStr(n) == IF n < 10 THEN <<Digits[n + 1]>> ELSE NatToStr(n \div 10) \o <<Digits[(n % 10) + 1]>>

IntToStr(n) == IF n < 0 THEN <<"-">> \o NatToStr(0 - n) ELSE NatToStr(n)

RECURSIVE DigitsToNat(_)
DigitsToNat(s) ==
  IF s = <<>> THEN 0 ELSE 10 * DigitsToNat(SubSeq(s, 1, Len(s) - 1)) + DigitVal(s[Len(s)])

RECURSIVE StringOf(_)
RECURSIVE Join(_, _)
\* String(x)
StringOf(x) ==
  CASE x.t = "undefined" -> S_undefined
    [] x.t = "null"      -> S_null
    [] x.t = "nan"       -> <<"N", "a", "N">>
    [] x.t = "boolean"   -> IF x.v THEN S_true ELSE S_false
    [] x.t = "number"    -> IntToStr(x.v)
    [] x.t = "decimal"   -> (IF x.neg THEN <<"-">> ELSE <<>>) \o NatToStr(x.whole) \o <<".">> \o x.frac
    [] x.t = "string"    -> x.v
    [] x.t = "array"     -> Join(x.v, <<",">>)
    [] x.t = "object"    -> S_objectObject

\* xs.join(sep): null and undefined elements contribute the empty string
Join(xs, sep) ==
  IF xs = <<>> THEN <<>>
  ELSE LET h    == xs[1]
           hs   == IF h.t \in {"undefined", "null"} THEN <<>> ELSE StringOf(h)
           rest == SubSeq(xs, 2, Len(xs))
       IN  IF rest = <<>> THEN hs ELSE hs \o sep \o Join(rest, sep)

RECURSIVE StripZeros(_)
\* digits without their trailing zeros
StripZeros(s) ==
  IF s # <<>> /\ s[Len(s)] = "0" THEN StripZeros(SubSeq(s, 1, Len(s) - 1)) ELSE s

AllDigits(s) == \A i \in 1..Len(s) : IsDigit(s[i])

\* the number written as whole "." frac, both runs of digits
PointNumber(neg, whole, frac) ==
  IF StripZeros(frac) = <<>>
  THEN Num(IF neg THEN 0 - DigitsToNat(whole) ELSE DigitsToNat(whole))
  ELSE Dec(neg, DigitsToNat(whole), StripZeros(frac))

\* the positions of the decimal points of a text
Points(body) == {i \in 1..Len(body) : body[i] = "."}

\* the digits after an optional sign, with at most one decimal point
SignedDigits(neg, body) ==
  IF body # <<>> /\ AllDigits(body)
  THEN Num(IF neg THEN 0 - DigitsToNat(body) ELSE DigitsToNat(body))
  ELSE IF Cardinality(Points(body)) = 1 /\ Len(body) > 1
          /\ AllDigits(SubSeq(body, 1, SetMin(Points(body)) - 1))
          /\ AllDigits(SubSeq(body, SetMin(Points(body)) + 1, Len(body)))
  THEN PointNumber(neg, SubSeq(body, 1, SetMin(Points(body)) - 1),
                   SubSeq(body, SetMin(Points(body)) + 1, Len(body)))
  ELSE NaN

\* a trimmed text as a number: blank is 0, an optionally signed decimal
\* numeral is its value, every other text is NaN (hexadecimal, exponent and
\* Infinity forms are not modelled and no input uses them)
DecimalToNumber(u) ==
  IF u = <<>> THEN Num(0)
  ELSE SignedDigits(u[1] = "-", IF u[1] \in {"-", "+"} THEN SubSeq(u, 2, Len(u)) ELSE u)

\* StringToNumber, restricted to decimal numerals
StringToNumber(s) == DecimalToNumber(trim(s))

\* Number(x)
ToNumber(x) ==
  CASE x.t = "undefined" -> NaN
    [] x.t = "null"      -> Num(0)
    [] x.t = "nan"       -> NaN
    [] x.t = "boolean"   -> Num(IF x.v THEN 1 ELSE 0)
    [] x.t = "number"    -> x
    [] x.t = "decimal"   -> x
    [] x.t = "string"    -> StringToNumber(x.v)
    [] x.t = "array"     -> StringToNumber(StringOf(x))
    [] x.t = "object"    -> NaN

\* Number.isFinite(x): true only for values of type number other than NaN
IsFiniteNumber(x) == x.t \in {"number", "decimal"}

\* typeof x
TypeOf(x) ==
  CASE x.t \in {"number", "decimal", "nan"} -> "number"
    [] x.t \in {"null", "array", "object"} -> "object"
    [] OTHER -> x.t

RECURSIVE Pow10(_)
Pow10(k) == IF k = 0 THEN 1 ELSE 10 * Pow10(k - 1)

\* the number of digits a finite number has after the point
FracLen(x) == IF x.t = "decimal" THEN Len(x.frac) ELSE 0

\* a finite number times 10^k, for k >= FracLen(x)
Scaled(x, k) ==
  IF x.t = "number" THEN x.v * Pow10(k)
  ELSE (IF x.neg THEN 0 - 1 ELSE 1)
       * (x.whole * Pow10(k) + DigitsToNat(x.frac) * Pow10(k - Len(x.frac)))

\* a < b for two values of type number: false when either is NaN
Less(a, b) ==
  /\ IsFiniteNumber(a)
  /\ IsFiniteNumber(b)
  /\ \E k \in {IF FracLen(a) > FracLen(b) THEN FracLen(a) ELSE FracLen(b)} :
       Scaled(a, k) < Scaled(b, k)

\* a <= b for two values of type number: false when either is NaN
LessOrEqualTo(a, b) == IsFiniteNumber(a) /\ IsFiniteNumber(b) /\ ~Less(b, a)

\* a == b, the comparison that converts a string operand to a number
LooseEquals(a, b) ==
  IF a.t = b.t
    THEN CASE a.t \in {"undefined", "null"} -> TRUE
           [] a.t \in {"boolean", "number", "string"} -> a.v = b.v
           [] a.t = "decimal" -> a = b
           [] OTHER -> FALSE
    ELSE CASE {a.t, b.t} = {"undefined", "null"} -> TRUE
           [] {TypeOf(a), TypeOf(b)} = {"number", "string"} ->
                IsFiniteNumber(ToNumber(a)) /\ ToNumber(a) = ToNumber(b)
           [] OTHER -> FALSE

\* a === b for a comparand b that is a primitive
StrictEquals(a, b) ==
  /\ a.t = b.t
  /\ CASE a.t \in {"undefined", "null"} -> TRUE
       [] a.t \in {"boolean", "number", "string"} -> a.v = b.v
       [] a.t = "decimal" -> a = b
       [] OTHER -> FALSE

----------------------------------------------------------------------------
(* Expression and Condition trees (src/src/types.ts) *)

Literal(x) == [type |-> "literal", value |-> x]

VarRef(n) == [type |-> "var", name |-> n]

ParamRef(n) == [type |-> "param", paramName |-> n]

QueryRef(n) == [type |-> "query", paramName |-> n]

BodyRef(n) == [type |-> "body", fieldName |-> n]

HeaderRef(n) == [type |-> "header", headerName |-> n]

Sql(q, as) == [type |-> "sql", query |-> q, args |-> as]

\* elseValue is an optional field: If omits it, IfElse carries it
If(bs) == [type |-> "if", branches |-> bs]

IfElse(bs, e) == [type |-> "if", branches |-> bs, elseValue |-> e]

Json(x) == [type |-> "json", value |-> x]

Html(s) == [type |-> "html", value |-> Str(s)]

Concat(ps) == [type |-> "concat", parts |-> ps]

Branch(c, e) == [condition |-> c, value |-> e]

Truthy(n) == [type |-> "truthy", varName |-> n]

Equals(n, x) == [type |-> "equals", varName |-> n, value |-> x]

NotEquals(n, x) == [type |-> "notEquals", varName |-> n, value |-> x]

GreaterThan(n, x) == [type |-> "greaterThan", varName |-> n, value |-> x]

LessThan(n, x) == [type |-> "lessThan", varName |-> n, value |-> x]

GreaterOrEqual(n, x) == [type |-> "greaterOrEqual", varName |-> n, value |-> x]

LessOrEqual(n, x) == [type |-> "lessOrEqual", varName |-> n, value |-> x]

And(cs) == [type |-> "and", conditions |-> cs]

Or(cs) == [type |-> "or", conditions |-> cs]

Not(c) == [type |-> "not", condition |-> c]

----------------------------------------------------------------------------
(* evaluateCondition (src/src/evaluator.ts) *)

\* the language's own truthiness in place of the case analysis
TruthyNative(value) ==
  CASE value.t \in {"undefined", "null", "nan"} -> FALSE
    [] value.t = "boolean" -> value.v
    [] value.t = "number"  -> value.v # 0
    [] value.t = "string"  -> value.v # <<>>
    [] OTHER -> TRUE

\* case 'truthy'
TruthyValue(value) ==
  CASE value.t \in {"null", "undefined"} -> FALSE
    [] value.t = "boolean" -> value.v
    [] value.t = "number"  -> value.v # 0
    [] value.t = "nan"     -> TRUE
    [] value.t = "string"  -> Len(value.v) > 0
    [] value.t = "array"   -> Len(value.v) > 0
    [] value.t = "object"  -> Cardinality(DOMAIN value.v) > 0
    [] OTHER -> TRUE

\* the relational cases without their typeof guard: the operators convert the variable
RECURSIVE evaluateConditionCoercing(_, _)
evaluateConditionCoercing(condition, ctx) ==
  LET value == Get(ctx.variables, condition.varName)
  IN  CASE condition.type = "truthy" -> TruthyValue(value)
        [] condition.type = "equals" -> StrictEquals(value, condition.value)
        [] condition.type = "notEquals" -> ~StrictEquals(value, condition.value)
        [] condition.type = "greaterThan" ->
             Less(ToNumber(condition.value), ToNumber(value))
        [] condition.type = "lessThan" ->
             Less(ToNumber(value), ToNumber(condition.value))
        [] condition.type = "greaterOrEqual" ->
             LessOrEqualTo(ToNumber(condition.value), ToNumber(value))
        [] condition.type = "lessOrEqual" ->
             LessOrEqualTo(ToNumber(value), ToNumber(condition.value))
        [] condition.type = "and" ->
             \A i \in 1..Len(condition.conditions) :
               evaluateConditionCoercing(condition.conditions[i], ctx)
        [] condition.type = "or" ->
             \E i \in 1..Len(condition.conditions) :
               evaluateConditionCoercing(condition.conditions[i], ctx)
        [] condition.type = "not" -> ~evaluateConditionCoercing(condition.condition, ctx)
        [] OTHER -> FALSE

\* a notEquals that holds of bound variables only
RECURSIVE evaluateConditionBoundOnly(_, _)
evaluateConditionBoundOnly(condition, ctx) ==
  LET value == Get(ctx.variables, condition.varName)
  IN  CASE condition.type = "truthy" -> TruthyValue(value)
        [] condition.type = "equals" -> StrictEquals(value, condition.value)
        [] condition.type = "notEquals" ->
             value # Undefined /\ ~StrictEquals(value, condition.value)
        [] condition.type = "greaterThan" ->
             TypeOf(value) = "number" /\ Less(ToNumber(condition.value), value)
        [] condition.type = "lessThan" ->
             TypeOf(value) = "number" /\ Less(value, ToNumber(condition.value))
        [] condition.type = "greaterOrEqual" ->
             TypeOf(value) = "number" /\ LessOrEqualTo(ToNumber(condition.value), value)
        [] condition.type = "lessOrEqual" ->
             TypeOf(value) = "number" /\ LessOrEqualTo(value, ToNumber(condition.value))
        [] condition.type = "and" ->
             \A i \in 1..Len(condition.conditions) :
               evaluateConditionBoundOnly(condition.conditions[i], ctx)
        [] condition.type = "or" ->
             \E i \in 1..Len(condition.conditions) :
               evaluateConditionBoundOnly(condition.conditions[i], ctx)
        [] condition.type = "not" -> ~evaluateConditionBoundOnly(condition.condition, ctx)
        [] OTHER -> FALSE

RECURSIVE evaluateCondition(_, _)
evaluateCondition(condition, ctx) ==
  LET value == Get(ctx.variables, condition.varName)
  IN  CASE condition.type = "truthy" -> TruthyValue(value)
        [] condition.type = "equals" -> StrictEquals(value, condition.value)
        [] condition.type = "notEquals" -> ~StrictEquals(value, condition.value)
        [] condition.type = "greaterThan" ->
             TypeOf(value) = "number" /\ Less(ToNumber(condition.value), value)
        [] condition.type = "lessThan" ->
             TypeOf(value) = "number" /\ Less(value, ToNumber(condition.value))
        [] condition.type = "greaterOrEqual" ->
             TypeOf(value) = "number" /\ LessOrEqualTo(ToNumber(condition.value), value)
        [] condition.type = "lessOrEqual" ->
             TypeOf(value) = "number" /\ LessOrEqualTo(value, ToNumber(condition.value))
        [] condition.type = "and" ->
             \A i \in 1..Len(condition.conditions) :
               evaluateCondition(condition.conditions[i], ctx)
        [] condition.type = "or" ->
             \E i \in 1..Len(condition.conditions) :
               evaluateCondition(condition.conditions[i], ctx)
        [] condition.type = "not" -> ~evaluateCondition(condition.condition, ctx)
        [] OTHER -> FALSE

----------------------------------------------------------------------------
(* The query executor behind db.prepare / stmt.get / stmt.all / stmt.run.  *)
(* The database holds one table, t(id INTEGER PRIMARY KEY AUTOINCREMENT,   *)
(* name TEXT NOT NULL); `file` is its content: whether the table exists,   *)
(* its rows in id order, and the last id handed out.                       *)

EmptyFile == [hasTable |-> FALSE, rows |-> <<>>, seq |-> 0]

Row(id, name) == [id |-> id, name |-> name]

RowObject(row) == Obj(Map2(S_id, Num(row.id), S_name, row.name))

\* the statements the engine accepts, in the engine's own normal form
\* (keywords and identifiers are case-insensitive, outer blanks ignored)
Grammar ==
  <<[text |-> toUpperCase(Q_SelectAll),   kind |-> "selectAll",   reader |-> TRUE,  nparams |-> 0],
    [text |-> toUpperCase(Q_SelectById),  kind |-> "selectById",  reader |-> TRUE,  nparams |-> 1],
    [text |-> toUpperCase(Q_SelectLimit), kind |-> "selectLimit", reader |-> TRUE,  nparams |-> 0],
    [text |-> toUpperCase(Q_SelectIn),    kind |-> "selectIn",    reader |-> TRUE,  nparams |-> 2],
    [text |-> toUpperCase(Q_Insert),      kind |-> "insert",      reader |-> FALSE, nparams |-> 1],
    [text |-> toUpperCase(Q_Replace),     kind |-> "insert",      reader |-> FALSE, nparams |-> 1],
    [text |-> toUpperCase(Q_Update),      kind |-> "update",      reader |-> FALSE, nparams |-> 2],
    [text |-> toUpperCase(Q_Delete),      kind |-> "delete",      reader |-> FALSE, nparams |-> 1]>>

GrammarKind(g) ==
  [kind |-> Grammar[g].kind, reader |-> Grammar[g].reader, nparams |-> Grammar[g].nparams]

KindOf(c) ==
  IF c = <<>> THEN [kind |-> "empty", reader |-> FALSE, nparams |-> 0]
  ELSE IF \E g \in 1..Len(Grammar) : Grammar[g].text = c
       THEN GrammarKind(CHOOSE g \in 1..Len(Grammar) : Grammar[g].text = c)
       ELSE [kind |-> "invalid", reader |-> FALSE, nparams |-> 0]

\* what the engine understands a statement text to be
StmtKind(text) == Only({KindOf(c) : c \in {toUpperCase(trim(text))}})

Throw(msg) == [ok |-> FALSE, msg |-> msg]

Prepared(file, k) ==
  IF k.kind = "empty" THEN Throw(MsgNoStatement)
  ELSE IF k.kind = "invalid" THEN Throw(MsgSyntax)
  ELSE IF ~file.hasTable THEN Throw(MsgNoTable)
  ELSE [ok |-> TRUE, stmt |-> k]

\* db.prepare(query)
Prepare(file, text) == Prepared(file, StmtKind(text))

\* binding the evaluated arguments to the statement's placeholders
BindError(stmt, args) ==
  IF \E i \in 1..Len(args) : args[i].t \notin {"number", "decimal", "string", "null"}
  THEN MsgBind
  ELSE IF Len(args) < stmt.nparams THEN MsgTooFew
  ELSE IF Len(args) > stmt.nparams THEN MsgTooMany
  ELSE <<>>

IdEquals(row, n) == n.t = "number" /\ n.v = row.id

\* a bound argument compared with the INTEGER id column
IdMatches(row, arg) == IdEquals(row, IF arg.t = "null" THEN NaN ELSE ToNumber(arg))

Select(seq, Test(_)) == SelectSeq(seq, Test)

MatchingRows(stmt, file, args) ==
  CASE stmt.kind = "selectAll" -> file.rows
    [] stmt.kind = "selectById" -> Select(file.rows, LAMBDA r : IdMatches(r, args[1]))
    [] stmt.kind = "selectLimit" -> SubSeq(file.rows, 1, IF file.rows = <<>> THEN 0 ELSE 1)
    [] stmt.kind = "selectIn" ->
         Select(file.rows, LAMBDA r : IdMatches(r, args[1]) \/ IdMatches(r, args[2]))
    [] stmt.kind = "update" -> Select(file.rows, LAMBDA r : IdMatches(r, args[2]))
    [] stmt.kind = "delete" -> Select(file.rows, LAMBDA r : IdMatches(r, args[1]))
    [] OTHER -> <<>>

FirstRow(rows) == IF rows = <<>> THEN Undefined ELSE RowObject(rows[1])

AllRows(rows) == Arr([i \in 1..Len(rows) |-> RowObject(rows[i])])

\* a statement method raises on arguments that do not bind and on a
\* statement of the wrong kind; otherwise it yields result
Guarded(err, wrongKind, msg, result) ==
  IF err # <<>> THEN Throw(err) ELSE IF wrongKind THEN Throw(msg) ELSE result

\* stmt.get(...args): the first matching row, or undefined
StmtGet(stmt, file, args) ==
  Guarded(BindError(stmt, args), ~stmt.reader, MsgNoData,
          [ok |-> TRUE, file |-> file, value |-> FirstRow(MatchingRows(stmt, file, args))])

\* stmt.all(...args): every matching row
StmtAll(stmt, file, args) ==
  Guarded(BindError(stmt, args), ~stmt.reader, MsgNoData,
          [ok |-> TRUE, file |-> file, value |-> AllRows(MatchingRows(stmt, file, args))])

\* the write a statement makes, given the rows its WHERE clause hits
Write(stmt, file, args, hit) ==
  CASE stmt.kind = "insert" ->
         IF args[1].t = "null" THEN Throw(MsgNotNull)
         ELSE [ok |-> TRUE,
               file |-> [file EXCEPT !.rows = Append(@, Row(file.seq + 1, args[1])),
                                     !.seq = @ + 1],
               changes |-> 1, lastInsertRowid |-> file.seq + 1]
    [] stmt.kind = "update" ->
         IF hit # <<>> /\ args[1].t = "null" THEN Throw(MsgNotNull)
         ELSE [ok |-> TRUE,
               file |-> [file EXCEPT !.rows =
                           [i \in 1..Len(file.rows) |->
                              IF IdMatches(file.rows[i], args[2])
                              THEN Row(file.rows[i].id, args[1])
                              ELSE file.rows[i]]],
               changes |-> Len(hit), lastInsertRowid |-> file.seq]
    [] stmt.kind = "delete" ->
         [ok |-> TRUE,
          file |-> [file EXCEPT !.rows =
                      Select(file.rows, LAMBDA r : ~IdMatches(r, args[1]))],
          changes |-> Len(hit), lastInsertRowid |-> file.seq]

\* stmt.run(...args): executes a write and reports {changes, lastInsertRowid}
StmtRun(stmt, file, args) ==
  Guarded(BindError(stmt, args), stmt.reader, MsgReturnsData,
          Write(stmt, file, args, MatchingRows(stmt, file, args)))

----------------------------------------------------------------------------
(* evaluateExpression, evaluateSql, evaluateIf (src/src/evaluator.ts).     *)
(* An evaluation runs in a world w = [db, file, log]: the module's         *)
(* connection handle (0 is null), the database content, and the record of  *)
(* the Query evaluations made so far.  It yields the value, the world      *)
(* after it, and whether an exception left the evaluation.                 *)

NoDb == 0

\* truthiness of the language itself, as in `result || null`, `if (elseValue)`
JsTruthy(x) ==
  CASE x.t \in {"undefined", "null", "nan"} -> FALSE
    [] x.t = "boolean" -> x.v
    [] x.t = "number"  -> x.v # 0
    [] x.t = "string"  -> x.v # <<>>
    [] OTHER -> TRUE

ErrorObject(msg) == Obj(Map1(S_error, Str(msg)))

Returned(x, w) == [val |-> x, w |-> w, thrown |-> FALSE]

Raised(msg, w) == [val |-> Undefined, w |-> w, thrown |-> TRUE, msg |-> msg]

\* one Query evaluation: the statement, the handle `db` held, whether
\* db.prepare was called, which statement method was called, whether the
\* executor raised, and the value evaluateSql returned
LogEntry(query, nargs, handle, prepared, mode, threw, x) ==
  [query |-> query, nargs |-> nargs, db |-> handle, prepared |-> prepared,
   mode |-> mode, threw |-> threw, value |-> x]

Logged(w, file, entry) == [w EXCEPT !.file = file, !.log = Append(@, entry)]

\* an evaluateSql without the try/catch
CatchSqlRethrow(query, nargs, mode, msg, w) ==
  Raised(msg, Logged(w, w.file, LogEntry(query, nargs, w.db, TRUE, mode, TRUE, Undefined)))

\* catch (error) { return { error: error.message } }
CatchSql(query, nargs, mode, msg, w) ==
  Returned(ErrorObject(msg),
           Logged(w, w.file, LogEntry(query, nargs, w.db, TRUE, mode, TRUE, ErrorObject(msg))))

\* query.trim().toUpperCase().startsWith('SELECT')
IsSelect(query) == startsWith(toUpperCase(trim(query)), S_SELECT)

\* a test for "has arguments" in place of "has exactly one"
FetchOneWithArguments(query, args) == includes(query, S_LIMIT1) \/ Len(args) >= 1

\* query.includes('LIMIT 1') || args.length === 1
FetchOne(query, args) == includes(query, S_LIMIT1) \/ Len(args) = 1

\* a keyword test on the text as written
IsInsertAsWritten(query) == startsWith(query, S_INSERT)

\* query.trim().toUpperCase().startsWith('INSERT')
IsInsert(query) == startsWith(toUpperCase(trim(query)), S_INSERT)

\* query.trim().toUpperCase().startsWith('UPDATE') || ...startsWith('DELETE')
IsUpdateOrDelete(query) ==
  \/ startsWith(toUpperCase(trim(query)), S_UPDATE)
  \/ startsWith(toUpperCase(trim(query)), S_DELETE)

\* result || null
OrNull(result) == IF JsTruthy(result) THEN result ELSE Null

\* the values evaluateSql builds from what a statement method reported
ShapeGet(r) == OrNull(r.value)

ShapeAll(r) == r.value

ShapeInsert(r) == Obj(Map2(S_id, Num(r.lastInsertRowid), S_changes, Num(r.changes)))

ShapeChanges(r) == Obj(Map1(S_changes, Num(r.changes)))

ShapeInfo(r) ==
  Obj(Map2(S_changes, Num(r.changes), S_lastInsertRowid, Num(r.lastInsertRowid)))

\* a statement method was called: what it raised is caught, what it
\* reported is shaped and returned
Finished(query, nargs, w, mode, r, x) ==
  IF ~r.ok THEN CatchSql(query, nargs, mode, r.msg, w)
  ELSE Returned(x, Logged(w, r.file, LogEntry(query, nargs, w.db, TRUE, mode, FALSE, x)))

Finish(query, nargs, w, mode, result, Shape(_)) ==
  Only({Finished(query, nargs, w, mode, r, IF r.ok THEN Shape(r) ELSE Undefined) :
          r \in {result}})

\* the try block of evaluateSql after db.prepare(query) returned or raised p
RunPrepared(query, args, evaluatedArgs, w, p) ==
  IF ~p.ok THEN CatchSql(query, Len(args), "none", p.msg, w)
  ELSE IF IsSelect(query)
  THEN IF FetchOne(query, args)
       THEN Finish(query, Len(args), w, "get", StmtGet(p.stmt, w.file, evaluatedArgs), ShapeGet)
       ELSE Finish(query, Len(args), w, "all", StmtAll(p.stmt, w.file, evaluatedArgs), ShapeAll)
  ELSE IF IsInsert(query)
  THEN Finish(query, Len(args), w, "run", StmtRun(p.stmt, w.file, evaluatedArgs), ShapeInsert)
  ELSE IF IsUpdateOrDelete(query)
  THEN Finish(query, Len(args), w, "run", StmtRun(p.stmt, w.file, evaluatedArgs), ShapeChanges)
  ELSE Finish(query, Len(args), w, "run", StmtRun(p.stmt, w.file, evaluatedArgs), ShapeInfo)

\* the try block of evaluateSql, after the arguments were evaluated
RunSql(query, args, evaluatedArgs, w) ==
  Only({RunPrepared(query, args, evaluatedArgs, w, p) : p \in {Prepare(w.file, query)}})

\* an exception leaves a map() or a join() at once; otherwise Then continues
Propagate(out, Then(_)) == Only({IF o.thrown THEN o ELSE Then(o) : o \in {out}})

RECURSIVE evaluateExpression(_, _, _)
RECURSIVE evaluateAll(_, _, _)
RECURSIVE evaluateSql(_, _, _, _)
RECURSIVE evaluateIf(_, _, _, _)
RECURSIVE evaluateIfLastMatch(_, _, _, _)

\* exprs.map((e) => evaluateExpression(e, ctx)): left to right, stopping at
\* the first exception; val is the sequence of values
evaluateAll(exprs, ctx, w) ==
  IF exprs = <<>> THEN Returned(<<>>, w)
  ELSE Propagate(evaluateExpression(exprs[1], ctx, w),
         LAMBDA h : Propagate(evaluateAll(SubSeq(exprs, 2, Len(exprs)), ctx, h.w),
                      LAMBDA rest : Returned(<<h.val>> \o rest.val, rest.w)))

\* an evaluateSql without the `if (!db)` guard
evaluateSqlUnguarded(query, args, ctx, w) ==
  Propagate(evaluateAll(args, ctx, w), LAMBDA ea : RunSql(query, args, ea.val, ea.w))

evaluateSql(query, args, ctx, w) ==
  IF w.db = NoDb
  THEN Returned(ErrorObject(MsgNotConfigured),
                Logged(w, w.file, LogEntry(query, Len(args), w.db, FALSE, "none", FALSE,
                                           ErrorObject(MsgNotConfigured))))
  ELSE Propagate(evaluateAll(args, ctx, w), LAMBDA ea : RunSql(query, args, ea.val, ea.w))

\* a loop that does not stop at the first true condition
evaluateIfLastMatch(branches, expr, ctx, w) ==
  IF branches # <<>>
  THEN IF evaluateCondition(branches[Len(branches)].condition, ctx)
       THEN evaluateExpression(branches[Len(branches)].value, ctx, w)
       ELSE evaluateIfLastMatch(SubSeq(branches, 1, Len(branches) - 1), expr, ctx, w)
  ELSE IF "elseValue" \in DOMAIN expr
       THEN evaluateExpression(expr.elseValue, ctx, w)
       ELSE Returned(Null, w)

evaluateIf(branches, expr, ctx, w) ==
  IF branches # <<>>
  THEN IF evaluateCondition(branches[1].condition, ctx)
       THEN evaluateExpression(branches[1].value, ctx, w)
       ELSE evaluateIf(SubSeq(branches, 2, Len(branches)), expr, ctx, w)
  ELSE IF "elseValue" \in DOMAIN expr
       THEN evaluateExpression(expr.elseValue, ctx, w)
       ELSE Returned(Null, w)

evaluateExpression(expr, ctx, w) ==
  CASE expr.type = "literal" -> Returned(expr.value, w)
    [] expr.type = "var"     -> Returned(Get(ctx.variables, expr.name), w)
    [] expr.type = "param"   -> Returned(Get(ctx.params, expr.paramName), w)
    [] expr.type = "query"   -> Returned(Get(ctx.query, expr.paramName), w)
    [] expr.type = "body"    -> Returned(Get(ctx.body, expr.fieldName), w)
    [] expr.type = "header"  -> Returned(Get(ctx.headers, toLowerCase(expr.headerName)), w)
    [] expr.type = "sql"     -> evaluateSql(expr.query, expr.args, ctx, w)
    [] expr.type = "if"      -> evaluateIf(expr.branches, expr, ctx, w)
    [] expr.type = "json"    -> Returned(expr.value, w)
    [] expr.type = "html"    -> Returned(expr.value, w)
    [] expr.type = "concat"  ->
         Propagate(evaluateAll(expr.parts, ctx, w),
                   LAMBDA ps : Returned(Str(Join(ps.val, <<>>)), ps.w))
    [] OTHER -> Returned(Null, w)

----------------------------------------------------------------------------
(* The route compiler's request normalisers (compiler: normalizeParams,    *)
(* normalizeQuery, normalizeHeaders, normalizeBody)                        *)

\* one entry of a raw params / query / headers object
NormalizeEntry(value) ==
  CASE value.t = "array"     -> Str(Join(value.v, <<",">>))
    [] value.t = "undefined" -> Str(<<>>)
    [] OTHER                 -> Str(StringOf(value))

normalizeParams(params) == [k \in DOMAIN params |-> NormalizeEntry(params[k])]

normalizeQuery(query) == [k \in DOMAIN query |-> NormalizeEntry(query[k])]

\* header names kept as the request spells them
normalizeHeadersKeepingCase(headers) ==
  [k \in DOMAIN headers |-> NormalizeEntry(headers[k])]

\* keys are lower-cased; of two raw keys with one lower-case form one wins
normalizeHeaders(headers) ==
  [k \in {toLowerCase(j) : j \in DOMAIN headers} |->
     NormalizeEntry(headers[CHOOSE j \in DOMAIN headers : toLowerCase(j) = k])]

\* !body || typeof body !== 'object' || Array.isArray(body) gives {}
normalizeBody(body) == IF body.t = "object" THEN body.v ELSE EmptyMap

----------------------------------------------------------------------------
(* Routes (RouteRule, src/src/types.ts) *)

Assign(n, e) == [name |-> n, value |-> e]

\* status is an optional field of RouteRule
Route(vars, ret) == [variables |-> vars, return |-> ret]

RouteWithStatus(vars, st, ret) == [variables |-> vars, status |-> st, return |-> ret]

StatusLiteral(x) == [type |-> "literal", value |-> x]

StatusExpr(e) == [type |-> e.type, value |-> e]

ReturnJson(e) == [type |-> "json", value |-> e]

ReturnHtml(e) == [type |-> "html", value |-> e]

----------------------------------------------------------------------------
(* The deployment under check: the routes of tests/integration.test.ts     *)
(* and routes that put Query nodes in every position the parser allows     *)

NotFoundBody == Json(Obj(Map1(S_error, Str(S_NotFound))))

WelcomeBody == Json(Obj(Map1(S_message, Str(S_Welcome))))

DeniedBody == Json(Obj(Map1(S_error, Str(S_Denied))))

\* [path="/users"]:GET
ListRoute == Route(<<>>, ReturnJson(Sql(Q_SelectAll, <<>>)))

\* [path="/users/:id"]:GET
ShowRoute ==
  Route(<<Assign(S_id, ParamRef(S_id)),
          Assign(S_user, Sql(Q_SelectById, <<VarRef(S_id)>>))>>,
        ReturnJson(IfElse(<<Branch(Truthy(S_user), VarRef(S_user))>>, NotFoundBody)))

\* [path="/users"]:POST
CreateRoute ==
  Route(<<Assign(S_name, BodyRef(S_name))>>,
        ReturnJson(Sql(Q_Insert, <<VarRef(S_name)>>)))

\* [path="/admin"]:GET
AdminRoute ==
  RouteWithStatus(
    <<Assign(S_role, HeaderRef(S_xUserRole))>>,
    StatusExpr(IfElse(<<Branch(Equals(S_role, Str(S_admin)), Literal(Num(200)))>>,
                      Literal(Num(403)))),
    ReturnJson(IfElse(<<Branch(Equals(S_role, Str(S_admin)), WelcomeBody)>>, DeniedBody)))

\* a conditional whose branch values and else value are three different
\* statements, and whose conditions can both be true
BranchRoute ==
  Route(<<Assign(S_role, HeaderRef(S_XUserRole))>>,
        ReturnJson(IfElse(<<Branch(Equals(S_role, Str(S_admin)),
                                   Sql(Q_Delete, <<ParamRef(S_id)>>)),
                            Branch(Truthy(S_role),
                                   Sql(Q_SelectById, <<ParamRef(S_id)>>))>>,
                          Sql(Q_SelectLimit, <<>>))))

\* forward reference, backward reference and a name assigned twice
OrderRoute ==
  RouteWithStatus(
    <<Assign(S_a, VarRef(S_b)),
      Assign(S_b, ParamRef(S_id)),
      Assign(S_c, VarRef(S_b)),
      Assign(S_b, QueryRef(S_code)),
      Assign(S_r, VarRef(S_b))>>,
    StatusExpr(VarRef(S_r)),
    ReturnHtml(VarRef(S_c)))

\* a Query in the status expression; lower-case statements
StatusRoute ==
  RouteWithStatus(
    <<Assign(S_q, QueryRef(S_q))>>,
    StatusExpr(IfElse(<<Branch(Truthy(S_q), Sql(Q_insertLower, <<VarRef(S_q)>>))>>,
                      Literal(Num(400)))),
    ReturnJson(Sql(Q_selectLower, <<>>)))

\* statements the executor rejects, a two-argument SELECT, another keyword
FailRoute ==
  RouteWithStatus(
    <<Assign(S_a, Sql(Q_Bad, <<>>)),
      Assign(S_b, Sql(Q_Empty, <<>>)),
      Assign(S_c, Sql(Q_Update, <<BodyRef(S_name), ParamRef(S_id)>>)),
      Assign(S_r, Sql(Q_SelectIn, <<ParamRef(S_id), Literal(Num(2))>>))>>,
    StatusLiteral(Num(200)),
    ReturnJson(IfElse(<<Branch(GreaterThan(S_c, Num(0)), VarRef(S_r))>>,
                      Sql(Q_Replace, <<BodyRef(S_name)>>))))

\* --v: body(v); @return json(if(--v: "yes"; else: "no"))
TruthyRoute ==
  Route(<<Assign(S_v, BodyRef(S_v))>>,
        ReturnJson(IfElse(<<Branch(Truthy(S_v), Literal(Str(S_yes)))>>, Literal(Str(S_no)))))

\* a status that reads a variable the route does not assign:
\* --w: body(v); status: if(not --w: var(--v)); @return json(var(--w))
OptionalStatusRoute ==
  RouteWithStatus(
    <<Assign(S_w, BodyRef(S_v))>>,
    StatusExpr(If(<<Branch(Not(Truthy(S_w)), VarRef(S_v))>>)),
    ReturnJson(VarRef(S_w)))

Routes ==
  <<ListRoute, ShowRoute, CreateRoute, AdminRoute, BranchRoute, OrderRoute,
    StatusRoute, FailRoute, TruthyRoute, OptionalStatusRoute>>

\* a request that carries nothing but a JSON body
BodyOnly(body) == [params |-> EmptyMap, query |-> EmptyMap, body |-> body, headers |-> EmptyMap]

\* raw requests as the router hands them to a handler
Inputs ==
  <<[params  |-> Map1(S_id, Str(S_1)),
     query   |-> EmptyMap,
     body    |-> Obj(Map2(S_name, Str(S_bob), S_v, Num(7))),
     headers |-> Map1(S_XUserRole, Str(S_admin))],
    [params  |-> Map1(S_id, Str(S_9)),
     query   |-> Map2(S_q, Str(S_ann), S_code, Str(S_404)),
     body    |-> Undefined,
     headers |-> Map1(S_xUserRole, Str(S_user))],
    [params  |-> EmptyMap,
     query   |-> Map2(S_q, Str(<<>>), S_code, Arr(<<Str(S_a), Str(S_b)>>)),
     body    |-> Obj(Map2(S_name, Null, S_v, Null)),
     headers |-> EmptyMap],
    [params  |-> Map1(S_id, Str(S_1)),
     query   |-> Map2(S_q, Undefined, S_code, Str(S_1p5)),
     body    |-> Obj(Map2(S_name, Bool(TRUE), S_v, Bool(TRUE))),
     headers |-> Map1(S_XUserRole, Arr(<<Str(S_admin)>>))],
    BodyOnly(Obj(Map1(S_v, Num(0)))),
    BodyOnly(Obj(Map1(S_v, Str(<<>>)))),
    BodyOnly(Obj(Map1(S_v, Arr(<<>>)))),
    BodyOnly(Obj(Map1(S_v, Obj(EmptyMap)))),
    BodyOnly(Obj(Map1(S_v, Bool(FALSE)))),
    BodyOnly(Obj(Map1(S_v, Str(S_abc)))),
    BodyOnly(Obj(Map1(S_v, Arr(<<Num(0)>>)))),
    BodyOnly(Obj(Map1(S_v, Obj(Map1(S_id, Num(1))))))>>

RECURSIVE InsertsIn(_)
RECURSIVE InsertsInAll(_)
\* how many rows evaluating an expression can add at most
InsertsIn(expr) ==
  CASE expr.type = "sql" ->
         (IF StmtKind(expr.query).kind = "insert" THEN 1 ELSE 0) + InsertsInAll(expr.args)
    [] expr.type = "if" ->
         InsertsInAll([i \in 1..Len(expr.branches) |-> expr.branches[i].value])
         + (IF "elseValue" \in DOMAIN expr THEN InsertsIn(expr.elseValue) ELSE 0)
    [] expr.type = "concat" -> InsertsInAll(expr.parts)
    [] OTHER -> 0

InsertsInAll(exprs) ==
  IF exprs = <<>> THEN 0 ELSE InsertsIn(exprs[1]) + InsertsInAll(SubSeq(exprs, 2, Len(exprs)))

InsertsOfRoute(route) ==
  InsertsInAll([i \in 1..Len(route.variables) |-> route.variables[i].value])
  + (IF "status" \in DOMAIN route /\ route.status.type # "literal"
     THEN InsertsIn(route.status.value) ELSE 0)
  + InsertsIn(route.return.value)

InsertsOf == [i \in 1..Len(Routes) |-> InsertsOfRoute(Routes[i])]

----------------------------------------------------------------------------
(* State *)

VARIABLES
  db,          \* evaluator.ts `db`: NoDb (null) or the handle of a connection
  conns,       \* handles of the connections that are open
  opened,      \* number of connections opened so far; the next handle
  file,        \* content of the database the connections are opened on
  registered,  \* whether createApp has registered the route handlers
  appError,    \* message of the exception the last lifecycle call raised, <<>> if none
  req,         \* the latest activation of a handler: its request, context and response
  call         \* a direct call of one exported function: its arguments and its result

vars == <<db, conns, opened, file, registered, appError, req, call>>

NoContext ==
  [params |-> EmptyMap, query |-> EmptyMap, body |-> EmptyMap, headers |-> EmptyMap,
   variables |-> EmptyMap]

\* a response on which neither status() nor json()/send() was called
NoResponse == [status |-> Undefined, kind |-> "none", body |-> Undefined, sent |-> 0]

\* start is the database file as the invocation found it
NoActivation ==
  [pc |-> "idle", route |-> 0, input |-> 0, ctx |-> NoContext, i |-> 0,
   result |-> Undefined, res |-> NoResponse, log |-> <<>>, start |-> EmptyFile]

Running == {"assign", "status", "return", "emit"}

\* handlers are synchronous: one runs from its first statement to its last
\* before any other handler or lifecycle call starts
NoneRunning == req.pc \notin Running

World == [db |-> db, file |-> file, log |-> <<>>]

Tagged(step, log) == [k \in 1..Len(log) |-> [step |-> step, e |-> log[k]]]

\* no function is being called directly
NoCall == [fn |-> "none", args |-> <<>>, returned |-> FALSE, result |-> Undefined]

\* the module state after import: no connection, no handler registered
Loaded ==
  /\ db = NoDb
  /\ conns = {}
  /\ opened = 0
  /\ file = EmptyFile
  /\ registered = FALSE
  /\ appError = <<>>
  /\ req = NoActivation

Init ==
  /\ Loaded
  /\ call = NoCall

----------------------------------------------------------------------------
(* Lifecycle: initDatabase, executeSchema, closeDatabase (evaluator.ts),   *)
(* createApp, stopServer (runtime)                                         *)

\* db = new Database(dbPath)
OpenEffect == [db |-> opened + 1, conns |-> conns \cup {opened + 1}, opened |-> opened + 1]

\* db.exec(schema) for the schema CREATE TABLE t (...); INSERT INTO t (name) VALUES ('ann')
SchemaEffect(handle, f) ==
  IF handle = NoDb THEN [ok |-> FALSE, msg |-> MsgNotInitialized, file |-> f]
  ELSE IF f.hasTable THEN [ok |-> FALSE, msg |-> MsgExists, file |-> f]
  ELSE [ok |-> TRUE, msg |-> <<>>,
        file |-> [hasTable |-> TRUE, rows |-> <<Row(1, Str(S_ann))>>, seq |-> 1]]

\* if (db) { db.close(); db = null }
CloseEffect ==
  IF db # NoDb THEN [db |-> NoDb, conns |-> conns \ {db}] ELSE [db |-> db, conns |-> conns]

InitDatabase ==
  /\ NoneRunning
  /\ opened < MaxOpens
  /\ db' = OpenEffect.db
  /\ conns' = OpenEffect.conns
  /\ opened' = OpenEffect.opened
  /\ appError' = <<>>
  /\ UNCHANGED <<file, registered, req, call>>

ExecuteSchema ==
  /\ NoneRunning
  /\ file' = SchemaEffect(db, file).file
  /\ appError' = SchemaEffect(db, file).msg
  /\ UNCHANGED <<db, conns, opened, registered, req, call>>

CloseDatabase ==
  /\ NoneRunning
  /\ db' = CloseEffect.db
  /\ conns' = CloseEffect.conns
  /\ appError' = <<>>
  /\ UNCHANGED <<opened, file, registered, req, call>>

\* a createApp that goes on to register the routes when executeSchema raised
RegisteredRegardless(s) ==
  /\ file' = s.file
  /\ appError' = s.msg
  /\ registered' = TRUE

\* the rest of createApp once the database block is through: s is what
\* executeSchema did, or a success when it was not called
Registered(s) ==
  /\ file' = s.file
  /\ appError' = s.msg
  /\ registered' = IF s.ok THEN TRUE ELSE registered

\* createApp(parsed): parsed.config.database and parsed.schema may be absent;
\* an exception from executeSchema leaves createApp before any route is registered
CreateApp(hasDatabase, hasSchema) ==
  /\ NoneRunning
  /\ hasDatabase => opened < MaxOpens
  /\ db' = IF hasDatabase THEN OpenEffect.db ELSE db
  /\ conns' = IF hasDatabase THEN OpenEffect.conns ELSE conns
  /\ opened' = IF hasDatabase THEN OpenEffect.opened ELSE opened
  /\ Registered(IF hasDatabase /\ hasSchema THEN SchemaEffect(OpenEffect.db, file)
                ELSE [ok |-> TRUE, msg |-> <<>>, file |-> file])
  /\ UNCHANGED <<req, call>>

StopServer ==
  /\ NoneRunning
  /\ db' = CloseEffect.db
  /\ conns' = CloseEffect.conns
  /\ appError' = <<>>
  /\ UNCHANGED <<opened, file, registered, req, call>>

----------------------------------------------------------------------------
(* The request handler (compiler: createHandler).  Its statements are      *)
(* taken one at a time, in the order the code gives them, so that the      *)
(* position of the handler is part of the state.                           *)

RouteOf == Routes[req.route]

\* res.status(code)
SetStatus(res, code) == [res EXCEPT !.status = code]

\* a json() that sends nothing for an error object
SendJsonUnlessError(res, result) ==
  IF result.t = "object" /\ S_error \in DOMAIN result.v THEN res
  ELSE [res EXCEPT !.kind = "json", !.body = result, !.sent = @ + 1]

\* res.json(result)
SendJson(res, result) == [res EXCEPT !.kind = "json", !.body = result, !.sent = @ + 1]

\* res.send(typeof result === 'string' ? result : String(result))
SendHtml(res, result) ==
  [res EXCEPT !.kind = "html",
              !.body = IF result.t = "string" THEN result ELSE Str(StringOf(result)),
              !.sent = @ + 1]

\* a handler that keeps one variable map for all its invocations
BuildContextShared(request) ==
  [params    |-> normalizeParams(request.params),
   query     |-> normalizeQuery(request.query),
   body      |-> normalizeBody(request.body),
   headers   |-> normalizeHeaders(request.headers),
   variables |-> req.ctx.variables]

\* the RequestContext literal at the head of the handler
BuildContext(request) ==
  [params    |-> normalizeParams(request.params),
   query     |-> normalizeQuery(request.query),
   body      |-> normalizeBody(request.body),
   headers   |-> normalizeHeaders(request.headers),
   variables |-> EmptyMap]

\* the router invokes the handler of a registered route with a request:
\* const ctx: RequestContext = {...}.  The activation record of the previous
\* invocation is garbage from here on.
Begin(route, input) ==
  /\ registered
  /\ NoneRunning
  /\ file.seq + InsertsOf[route] <= MaxRowId
  /\ req' = [NoActivation EXCEPT
       !.route = route,
       !.input = input,
       !.ctx = BuildContext(Inputs[input]),
       !.i = 1,
       !.start = file,
       !.pc = IF Routes[route].variables = <<>> THEN "status" ELSE "assign"]
  /\ UNCHANGED <<db, conns, opened, file, registered, appError, call>>

\* an evaluation came back as out in handler position step: the database is
\* as it left it, its Query evaluations are on record, and an exception
\* leaves the handler
Evaluated(step, out, next) ==
  /\ file' = out.w.file
  /\ req' = [next EXCEPT !.log = @ \o Tagged(step, out.w.log),
                         !.pc = IF out.thrown THEN "aborted" ELSE @]

\* an assignment that leaves a name alone once it is bound
BoundFirstWins(variable, out) ==
  [req EXCEPT !.ctx.variables = IF out.thrown \/ variable.name \in DOMAIN @
                                THEN @ ELSE Put(@, variable.name, out.val),
              !.i = @ + 1,
              !.pc = IF req.i = Len(RouteOf.variables) THEN "status" ELSE "assign"]

\* ctx.variables[variable.name] = <value of out>
Bound(variable, out) ==
  [req EXCEPT !.ctx.variables = IF out.thrown THEN @ ELSE Put(@, variable.name, out.val),
              !.i = @ + 1,
              !.pc = IF req.i = Len(RouteOf.variables) THEN "status" ELSE "assign"]

AssignTo(variable, out) == Evaluated("assign", out, Bound(variable, out))

\* one turn of: for (const variable of route.variables)
\*   ctx.variables[variable.name] = evaluateExpression(variable.value, ctx)
AssignStep ==
  /\ req.pc = "assign"
  /\ \E out \in {evaluateExpression(RouteOf.variables[req.i].value, req.ctx, World)} :
       AssignTo(RouteOf.variables[req.i], out)
  /\ UNCHANGED <<db, conns, opened, registered, appError, call>>

\* if (Number.isFinite(statusValue)) res.status(statusValue)
WithStatus(statusValue) ==
  [req EXCEPT !.res = IF IsFiniteNumber(statusValue) THEN SetStatus(@, statusValue) ELSE @,
              !.pc = "return"]

\* statusValue = Number(evaluateExpression(route.status.value, ctx))
StatusFrom(out) ==
  Evaluated("status", out, IF out.thrown THEN req ELSE WithStatus(ToNumber(out.val)))

\* if (route.status) { const statusValue = ...; ... }
StatusStep ==
  /\ req.pc = "status"
  /\ IF "status" \notin DOMAIN RouteOf
     THEN /\ req' = [req EXCEPT !.pc = "return"]
          /\ file' = file
     ELSE IF RouteOf.status.type = "literal"
     THEN /\ req' = WithStatus(RouteOf.status.value)
          /\ file' = file
     ELSE \E out \in {evaluateExpression(RouteOf.status.value, req.ctx, World)} :
            StatusFrom(out)
  /\ UNCHANGED <<db, conns, opened, registered, appError, call>>

ResultFrom(out) ==
  Evaluated("return", out, [req EXCEPT !.result = IF out.thrown THEN @ ELSE out.val,
                                       !.pc = "emit"])

\* const result = evaluateExpression(route.return.value, ctx)
ReturnStep ==
  /\ req.pc = "return"
  /\ \E out \in {evaluateExpression(RouteOf.return.value, req.ctx, World)} :
       ResultFrom(out)
  /\ UNCHANGED <<db, conns, opened, registered, appError, call>>

\* an emission that evaluates the return expression once more
EmitStepReevaluating ==
  /\ req.pc = "emit"
  /\ \E out \in {evaluateExpression(RouteOf.return.value, req.ctx, World)} :
       Evaluated("emit", out,
                 [req EXCEPT !.res = IF RouteOf.return.type = "json"
                                     THEN SendJson(@, req.result) ELSE SendHtml(@, req.result),
                             !.pc = "done"])
  /\ UNCHANGED <<db, conns, opened, registered, appError, call>>

\* if (route.return.type === 'json') res.json(result) else res.send(...)
EmitStep ==
  /\ req.pc = "emit"
  /\ req' = [req EXCEPT
       !.res = IF RouteOf.return.type = "json"
               THEN SendJson(@, req.result) ELSE SendHtml(@, req.result),
       !.pc = "done"]
  /\ UNCHANGED <<db, conns, opened, file, registered, appError, call>>

HandlerStep == AssignStep \/ StatusStep \/ ReturnStep \/ EmitStep

Next ==
  \/ InitDatabase
  \/ ExecuteSchema
  \/ CloseDatabase
  \/ \E d, s \in BOOLEAN : CreateApp(d, s)
  \/ StopServer
  \/ \E route \in 1..Len(Routes) : \E input \in 1..Len(Inputs) : Begin(route, input)
  \/ AssignStep
  \/ StatusStep
  \/ ReturnStep
  \/ EmitStep

Spec == Init /\ [][Next]_vars

\* a handler that has started is never suspended: it has no await
FairSpec == Spec /\ WF_vars(HandlerStep)

----------------------------------------------------------------------------
(* Claims *)

\* the Conditional a route evaluates at position pc, if it evaluates one there
ConditionalAt(pc) ==
  IF pc = "return" THEN RouteOf.return.value
  ELSE IF pc = "status" /\ "status" \in DOMAIN RouteOf /\ RouteOf.status.type = "if"
       THEN RouteOf.status.value
       ELSE Literal(Null)

Matching(e, ctx) ==
  {k \in 1..Len(e.branches) : evaluateCondition(e.branches[k].condition, ctx)}

FirstMatching(e, ctx) == CHOOSE k \in Matching(e, ctx) : \A j \in Matching(e, ctx) : k <= j

\* what the first-match rule yields for Conditional e in world w
FirstMatchOutcome(e, ctx, w) ==
  IF Matching(e, ctx) # {}
  THEN evaluateExpression(e.branches[FirstMatching(e, ctx)].value, ctx, w)
  ELSE IF "elseValue" \in DOMAIN e THEN evaluateExpression(e.elseValue, ctx, w)
       ELSE Returned(Null, w)

\* a status or return step took the activation from `before` to `after`
\* exactly as if the step had evaluated to `expected`
StepYields(before, after, fileAfter, expected) ==
  /\ after.pc # "aborted"
  /\ fileAfter = expected.w.file
  /\ after.log = before.log \o Tagged(before.pc, expected.w.log)
  /\ before.pc = "return" => after.result = expected.val
  /\ before.pc = "status" =>
       after.res.status = IF IsFiniteNumber(ToNumber(expected.val))
                          THEN ToNumber(expected.val) ELSE Undefined

\* C1: evaluating a Conditional yields the value of the first branch, in
\* source order, whose condition is true and evaluates nothing else: the
\* result, the database after it and the Query evaluations it made are those
\* of evaluating that branch's value alone; with no true condition they are
\* those of the else value if there is one, and otherwise the result is Null,
\* the database is untouched and no Query is evaluated.
C1_FirstMatch ==
  [][(req.pc \in {"status", "return"} /\ ConditionalAt(req.pc).type = "if") =>
       StepYields(req, req', file',
                  FirstMatchOutcome(ConditionalAt(req.pc), req.ctx, World))]_vars

\* the second branch of a two-branch Conditional was taken: its condition
\* is true, the first is false, and the one Query evaluated is the second
\* branch's value
C1_Witness ==
  /\ req.pc = "done"
  /\ req.route = 5
  /\ Matching(BranchRoute.return.value, req.ctx) = {2}
  /\ Len(req.log) = 1
  /\ req.log[1].e.query = Q_SelectById
  /\ req.log[1].e.db # NoDb
  /\ req.result = req.log[1].e.value

\* the names assigned by the first n assignments of a route
AssignedNames(route, n) == {route.variables[k].name : k \in 1..n}

\* how many assignments of the activation have been carried out
AssignmentsDone == IF req.pc = "assign" THEN req.i - 1 ELSE Len(RouteOf.variables)

\* the last of the first n assignments that assigns name, 0 if there is none
LastBinder(route, n, name) ==
  SetMax({0} \cup {k \in 1..n : route.variables[k].name = name})

\* routes whose assignments read the request and the variables only
ReadsOnly(route) ==
  \A k \in 1..Len(route.variables) :
    route.variables[k].value.type \in {"literal", "var", "param", "query", "body", "header"}

RECURSIVE ValueInOrder(_, _, _)
\* what assignment k produces when the assignments are carried out in
\* declaration order: a variable reference reads what the last earlier
\* assignment of that name produced, and the missing value if there is none
ValueInOrder(route, ctx, k) ==
  IF k = 0 THEN Undefined
  ELSE IF route.variables[k].value.type = "var"
  THEN ValueInOrder(route, ctx, LastBinder(route, k - 1, route.variables[k].value.name))
  ELSE evaluateExpression(route.variables[k].value, ctx, World).val

\* C2: the assignments of a route are carried out in declaration order, each
\* bound before the next is evaluated: after i assignments exactly the names
\* of assignments 1..i are bound, every variable holds what the last of these
\* assignments of its name produced, a reference to a name assigned only
\* later reads the missing value, and a second assignment of a name replaces
\* the first.
C2_DeclarationOrder ==
  req.pc # "idle" =>
    /\ DOMAIN req.ctx.variables = AssignedNames(RouteOf, AssignmentsDone)
    /\ ReadsOnly(RouteOf) =>
         \A n \in DOMAIN req.ctx.variables :
           req.ctx.variables[n] =
             ValueInOrder(RouteOf, req.ctx, LastBinder(RouteOf, AssignmentsDone, n))

\* the route with a forward reference, a backward reference and a name
\* assigned twice has run to its end
C2_Witness ==
  /\ req.pc = "done"
  /\ req.route = 6
  /\ req.ctx.params = Map1(S_id, Str(S_9))
  /\ req.ctx.variables[S_a] = Undefined
  /\ req.ctx.variables[S_c] = Str(S_9)
  /\ req.ctx.variables[S_b] = Str(S_404)
  /\ req.ctx.variables[S_r] = Str(S_404)

\* the responses sent so far by the activation
Sent == req.res.sent

Executions == {k \in 1..Len(req.log) : req.log[k].e.prepared}

\* C4 as stated: within the handling of one request a statement is executed
\* only while the variable assignments are evaluated; resolving the status
\* and evaluating the return body execute none.
C4_OnlyInAssignments == \A k \in Executions : req.log[k].step = "assign"

\* C4, as the handler has it: within the handling of one request a statement
\* is executed only while an expression is evaluated, which happens in the
\* assignments, in resolving a status expression and in evaluating the return
\* body; building the environment and the emission execute no statement and
\* leave the database as it is.
C4_OnlyInEvaluation ==
  [][/\ \A k \in 1..Len(req'.log) : req'.log[k].step \in {"assign", "status", "return"}
     /\ (req.pc \notin Running /\ req'.pc \in Running) => (file' = file /\ req'.log = <<>>)
     /\ req.pc = "emit" => (file' = file /\ req'.log = req.log)
     /\ (req.pc = "status" /\ "status" \in DOMAIN RouteOf /\ RouteOf.status.type = "literal")
          => (file' = file /\ req'.log = req.log)]_vars

\* a request whose status expression inserted a row and whose return body
\* read the table
C4_Witness ==
  /\ req.pc = "done"
  /\ \E k \in Executions :
       /\ req.log[k].step = "status"
       /\ req.log[k].e.mode = "run"
       /\ ~req.log[k].e.threw
       /\ S_id \in DOMAIN req.log[k].e.value.v
  /\ \E k \in Executions : req.log[k].step = "return" /\ req.log[k].e.mode = "all"

\* C5: every invocation of a handler starts from an environment of its own
\* with no variable bound, whatever the invocation before it left behind;
\* while it runs, its variables change only by its own assignments, and the
\* request and route it serves stay the same.
C5_FreshEnvironment ==
  [][/\ (req.pc \notin Running /\ req'.pc \in Running) =>
          /\ req'.ctx.variables = EmptyMap
          /\ req'.ctx = BuildContext(Inputs[req'.input])
     /\ req.pc \in Running =>
          /\ req'.route = req.route /\ req'.input = req.input
          /\ req'.ctx.variables # req.ctx.variables => req.pc = "assign"
          /\ [req'.ctx EXCEPT !.variables = EmptyMap] = [req.ctx EXCEPT !.variables = EmptyMap]]_vars

\* an invocation starts with no variable bound after an invocation of
\* another route bound `name` and inserted it
C5_Witness ==
  /\ req.pc = "assign"
  /\ req.route = 2
  /\ req.i = 1
  /\ req.ctx.variables = EmptyMap
  /\ \E k \in 1..Len(file.rows) : file.rows[k].name = Str(S_bob)

\* C6: while `db` is null a Query evaluation returns exactly
\* {error: "Database not configured"}: it calls neither db.prepare nor a
\* statement method, raises nothing, and leaves the database as it is.
C6_NotConfigured ==
  [][(db = NoDb /\ req.pc \in Running) =>
       /\ file' = file
       /\ \A k \in (Len(req.log) + 1)..Len(req'.log) :
            /\ req'.log[k].e.db = NoDb
            /\ req'.log[k].e.value = Obj(Map1(S_error, Str(MsgNotConfigured)))
            /\ ~req'.log[k].e.prepared
            /\ req'.log[k].e.mode = "none"
            /\ ~req'.log[k].e.threw]_vars

\* a connection was opened and closed again, and a request that lists
\* the table got the error object
C6_Witness ==
  /\ opened > 0
  /\ db = NoDb
  /\ file.hasTable
  /\ req.pc = "done"
  /\ req.route = 1
  /\ Len(req.log) = 1
  /\ req.log[1].e.db = NoDb
  /\ req.res.body = Obj(Map1(S_error, Str(MsgNotConfigured)))

\* the messages the executor raises
ExecutorMessages ==
  {MsgSyntax, MsgNoStatement, MsgNoTable, MsgNotNull, MsgTooFew, MsgTooMany,
   MsgNoData, MsgReturnsData, MsgBind}

\* the Query evaluations a step added to the record
Added(before, after) == {k \in 1..Len(after.log) : k > Len(before.log)}

\* C7: a failure of the executor in db.prepare or in a statement method
\* becomes the value {error: <message>} and never leaves evaluateExpression:
\* the step that evaluated the Query is not left by an exception, and an
\* assignment whose value is the Query binds that value.
C7_FailuresAreValues ==
  [][req.pc \in {"assign", "status", "return"} =>
       /\ req'.pc # "aborted"
       /\ \A k \in Added(req, req') :
            req'.log[k].e.threw =>
              \E msg \in ExecutorMessages : req'.log[k].e.value = Obj(Map1(S_error, Str(msg)))
       /\ (req.pc = "assign" /\ RouteOf.variables[req.i].value.type = "sql") =>
            /\ Len(req'.log) = Len(req.log) + 1
            /\ req'.ctx.variables[RouteOf.variables[req.i].name]
                 = req'.log[Len(req'.log)].e.value]_vars

\* a request ended after an insert violated NOT NULL, with the error object
\* for a body
C7_Witness ==
  /\ req.pc = "done"
  /\ req.route = 3
  /\ Len(req.log) = 1
  /\ req.log[1].e.threw
  /\ req.log[1].e.mode = "run"
  /\ req.res.body = Obj(Map1(S_error, Str(MsgNotNull)))
  /\ req.res.sent = 1


\* the statement of a logged Query evaluation, trimmed and in upper case
Keyword(e) == toUpperCase(trim(e.query))

\* the Query evaluations of the activation that called a statement method
Dispatched == {k \in 1..Len(req.log) : req.log[k].e.mode # "none"}

C9_WriteDispatch ==
  \A k \in Dispatched :
    (~startsWith(Keyword(req.log[k].e), S_SELECT) /\ ~req.log[k].e.threw) =>
      /\ req.log[k].e.mode = "run"
      /\ req.log[k].e.value.t = "object"
      /\ DOMAIN req.log[k].e.value.v =
           IF startsWith(Keyword(req.log[k].e), S_INSERT) THEN {S_id, S_changes}
           ELSE IF \/ startsWith(Keyword(req.log[k].e), S_UPDATE)
                   \/ startsWith(Keyword(req.log[k].e), S_DELETE) THEN {S_changes}
           ELSE {S_changes, S_lastInsertRowid}
      /\ startsWith(Keyword(req.log[k].e), S_INSERT) =>
           /\ req.log[k].e.value.v[S_changes] = Num(1)
           /\ req.log[k].e.value.v[S_id].v \in 1..file.seq

\* an insert written in lower case after a blank has reported the id of its
\* new row
C9_Witness ==
  /\ req.pc = "done"
  /\ req.route = 7
  /\ \E k \in Dispatched :
       /\ req.log[k].e.query = Q_insertLower
       /\ ~req.log[k].e.threw
       /\ req.log[k].e.value = Obj(Map2(S_id, Num(2), S_changes, Num(1)))

\* the table of truthy and falsy values
TableTruthy(x) ==
  CASE x = Num(0) \/ x = Str(<<>>) \/ x = Arr(<<>>) \/ x = Obj(EmptyMap)
       \/ x = Null \/ x = Bool(FALSE) \/ x = Undefined -> FALSE
    [] x.t = "number" \/ x.t = "string" \/ x.t = "array" \/ x.t = "object"
       \/ x = Bool(TRUE) -> TRUE

\* C10: Truthy(name) is false when the variable is 0, the empty string, an
\* empty array, an object without keys, null, false or unbound, and true when
\* it is a non-zero number, a non-empty string, a non-empty array, an object
\* with a key, or true: the route that answers "yes" if --v is truthy and
\* "no" otherwise answers by the table.
C10_TruthyTable ==
  (req.route = 9 /\ req.pc \in {"emit", "done"}) =>
    req.result = IF TableTruthy(Get(req.ctx.variables, S_v)) THEN Str(S_yes) ELSE Str(S_no)

\* the route answered "no" for an object without keys
C10_Witness ==
  /\ req.route = 9
  /\ req.pc = "done"
  /\ req.ctx.variables[S_v] = Obj(EmptyMap)
  /\ req.res.body = Str(S_no)


----------------------------------------------------------------------------
(* Direct calls: the exported functions called on their own, as the unit   *)
(* tests call them, with no server running.  A call is drawn pending from  *)
(* a bounded set of arguments and returns in one step.                     *)

Pending(fn, args) == [fn |-> fn, args |-> args, returned |-> FALSE, result |-> Undefined]

ReturnedFrom(fn) == call.fn = fn /\ call.returned

\* values a context variable is given
VariableValues ==
  { Undefined, Null, NaN, Bool(TRUE), Bool(FALSE),
    Num(0), Num(7), Num(0 - 1), Dec(FALSE, 1, S_5), Dec(TRUE, 1, S_5),
    Str(<<>>), Str(S_7), Str(S_1p5), Str(S_abc),
    Arr(<<>>), Arr(<<Num(7)>>), Obj(EmptyMap), Obj(Map1(S_a, Num(7))) }

\* comparands the parser produces: numbers and strings
Comparands == { Num(0), Num(7), Dec(FALSE, 1, S_5), Str(S_7), Str(S_1p5), Str(S_abc), Str(<<>>) }

Relations ==
  {"equals", "notEquals", "greaterThan", "lessThan", "greaterOrEqual", "lessOrEqual"}

Relational(type, n, x) == [type |-> type, varName |-> n, value |-> x]

\* the environments that bind variable a to a value, and the one that binds nothing
Environments ==
  {[NoContext EXCEPT !.variables = Map1(S_a, v)] : v \in VariableValues} \cup {NoContext}

ConditionCalls ==
  { Pending("evaluateCondition", <<Relational(type, S_a, x), ctx>>) :
      type \in Relations, x \in Comparands, ctx \in Environments }

\* evaluateCondition(condition, ctx) called directly
CallEvaluateCondition ==
  /\ call.fn = "evaluateCondition"
  /\ ~call.returned
  /\ call' = [call EXCEPT !.returned = TRUE,
                          !.result = Bool(evaluateCondition(call.args[1], call.args[2]))]
  /\ UNCHANGED <<db, conns, opened, file, registered, appError, req>>

----------------------------------------------------------------------------
(* C11 *)

\* the value of the variable a condition names, in the context it is evaluated in
Subject == Get(call.args[2].variables, call.args[1].varName)

Comparand == call.args[1].value

\* C11: Equals and NotEquals compare the variable's value with the comparand
\* by type-sensitive equality: values of different types are never equal,
\* whatever their textual forms (Equals is false, NotEquals true), and two
\* strings or two numbers are equal exactly when they are the same value
C11_TypeSensitiveEquality ==
  ReturnedFrom("evaluateCondition") /\ call.args[1].type \in {"equals", "notEquals"} =>
    /\ Subject.t # Comparand.t /\ {Subject.t, Comparand.t} # {"number", "decimal"} =>
         call.result = Bool(call.args[1].type = "notEquals")
    /\ Subject.t = Comparand.t =>
         call.result = Bool((Subject = Comparand) = (call.args[1].type = "equals"))
    /\ StringOf(Subject) = StringOf(Comparand) /\ TypeOf(Subject) # TypeOf(Comparand) =>
         call.result = Bool(call.args[1].type = "notEquals")

\* the number 7 was compared with the string "7" and found different
C11_Witness ==
  /\ ReturnedFrom("evaluateCondition")
  /\ call.args[1].type = "equals"
  /\ Subject = Num(7)
  /\ Comparand = Str(S_7)
  /\ call.result = Bool(FALSE)

----------------------------------------------------------------------------
(* C12 *)

Ordering == {"greaterThan", "lessThan", "greaterOrEqual", "lessOrEqual"}

\* ten times a finite number that has at most one digit after the point
Tenths(x) ==
  IF x.t = "number" THEN 10 * x.v
  ELSE (IF x.neg THEN 0 - 1 ELSE 1) * (10 * x.whole + DigitVal(x.frac[1]))

\* the comparison of two numbers that `type` names; false when either is NaN
Compares(type, a, b) ==
  /\ a.t # "nan"
  /\ b.t # "nan"
  /\ CASE type = "greaterThan"    -> Tenths(a) > Tenths(b)
       [] type = "lessThan"       -> Tenths(a) < Tenths(b)
       [] type = "greaterOrEqual" -> Tenths(a) >= Tenths(b)
       [] type = "lessOrEqual"    -> Tenths(a) =< Tenths(b)

\* C12: GreaterThan, LessThan, GreaterOrEqual and LessOrEqual return false
\* whenever the variable does not hold a number (string, boolean, null,
\* missing, array, object); when it holds a number they return the numeric
\* comparison of it with the comparand, the comparand taken as a number
C12_NumericComparisons ==
  ReturnedFrom("evaluateCondition") /\ call.args[1].type \in Ordering =>
    IF Subject.t \in {"number", "decimal", "nan"}
      THEN call.result = Bool(Compares(call.args[1].type, Subject, ToNumber(Comparand)))
      ELSE call.result = Bool(FALSE)

\* the string "7" was asked to be greater than 0 and is not
C12_Witness ==
  /\ ReturnedFrom("evaluateCondition")
  /\ call.args[1].type = "greaterThan"
  /\ Comparand = Num(0)
  /\ Subject = Str(S_7)
  /\ call.result = Bool(FALSE)

----------------------------------------------------------------------------
(* C13 *)

\* the handler is past its status statement and no evaluation raised
StatusResolved == req.pc \in {"return", "emit", "done"} /\ "status" \in DOMAIN RouteOf

\* C13: when a route has a status, a literal is used directly as the
\* response status, while a variable reference or conditional is evaluated
\* after the assignments and coerced to an integer that becomes the response
\* status; when the coercion is not finite no status is set
C13_IntegerStatus ==
  StatusResolved =>
    IF RouteOf.status.type = "literal"
      THEN req.res.status = RouteOf.status.value
      ELSE req.res.status = Undefined \/ req.res.status.t = "number"

----------------------------------------------------------------------------
(* C14 *)

\* the values a raw request carries under a header name, in any casing
CarriedUnder(request, name) ==
  {request.headers[k] : k \in {j \in DOMAIN request.headers : toLowerCase(j) = name}}

\* the handler of [path="/admin"]:GET has answered
AdminAnswered == req.pc = "done" /\ RouteOf = AdminRoute

\* C14: the route that binds role from header x-user-role and declares
\* status if(--role = admin: 200; else: 403) answers a request without that
\* header with status 403 and the else body, and a request whose header
\* value is admin with status 200 and the first branch's body
C14_AdminScenario ==
  AdminAnswered =>
    /\ req.res.sent = 1
    /\ req.res.kind = "json"
    /\ CarriedUnder(Inputs[req.input], S_xUserRole) = {} =>
         req.res.status = Num(403) /\ req.res.body = DeniedBody.value
    /\ CarriedUnder(Inputs[req.input], S_xUserRole) = {Str(S_admin)} =>
         req.res.status = Num(200) /\ req.res.body = WelcomeBody.value

\* a request carrying X-User-Role: admin was answered 200 with the welcome body
C14_Witness ==
  /\ AdminAnswered
  /\ Inputs[req.input].headers = Map1(S_XUserRole, Str(S_admin))
  /\ req.res.status = Num(200)
  /\ req.res.body = WelcomeBody.value

----------------------------------------------------------------------------
(* C15 *)

HeaderSpellings == {S_xUserRole, S_XUserRole, S_XUSERROLE}

\* requests carrying one header, and expressions reading one
HeaderCalls ==
  { Pending("evaluateExpression",
            <<HeaderRef(n), [params |-> EmptyMap, query |-> EmptyMap, body |-> Undefined,
                             headers |-> Map1(k, v)]>>) :
      n \in HeaderSpellings \cup {S_role},
      k \in HeaderSpellings \cup {S_role},
      v \in {Str(S_admin), Str(S_user), Arr(<<Str(S_admin)>>), Undefined} }

\* evaluateExpression(expr, ctx) on the context createHandler builds of a request
CallEvaluateExpression ==
  /\ call.fn = "evaluateExpression"
  /\ ~call.returned
  /\ \E out \in {evaluateExpression(call.args[1], BuildContext(call.args[2]), World)} :
       call' = [call EXCEPT !.returned = TRUE, !.result = out.val]
  /\ UNCHANGED <<db, conns, opened, file, registered, appError, req>>

\* C15: header lookup is case-insensitive: for a request carrying the header
\* X-User-Role: admin, in whatever casing the request spells the name, a
\* HeaderRef naming it in any casing (x-user-role, X-User-Role, X-USER-ROLE)
\* evaluates to the same value admin
C15_HeaderCaseInsensitive ==
  /\ ReturnedFrom("evaluateExpression")
  /\ call.args[1].type = "header"
  /\ call.args[1].headerName \in HeaderSpellings
  /\ \E k \in HeaderSpellings : call.args[2].headers = Map1(k, Str(S_admin))
  => call.result = Str(S_admin)

\* X-USER-ROLE was read from a request that spells the header X-User-Role
C15_Witness ==
  /\ ReturnedFrom("evaluateExpression")
  /\ call.args[1] = HeaderRef(S_XUSERROLE)
  /\ call.args[2].headers = Map1(S_XUserRole, Str(S_admin))
  /\ call.result = Str(S_admin)

----------------------------------------------------------------------------
(* The parser of declaration values (src/src/index.ts): parseExpression,   *)
(* parseSqlExpression, parseFunctionArgs, parseIfExpression,               *)
(* splitIfBranches, findColonInBranch, parseCondition,                     *)
(* extractFunctionContent, parseStringValue.  Positions are JavaScript's:  *)
(* the first character is at index 0.                                      *)

Quotes == {"\"", "'"}

\* \w
WordChars ==
  {LowerChars[i] : i \in 1..26} \cup {UpperChars[i] : i \in 1..26}
    \cup {Digits[i] : i \in 1..10} \cup {"_"}

\* s.indexOf(p): the index of the first occurrence, -1 when there is none
indexOf(s, p) ==
  IF includes(s, p)
  THEN SetMin({i \in 0..(Len(s) - Len(p)) : SubSeq(s, i + 1, i + Len(p)) = p})
  ELSE 0 - 1

\* s.slice(start, end) for 0 <= start
slice(s, start, end) == SubSeq(s, start + 1, IF end > Len(s) THEN Len(s) ELSE end)

\* s.slice(start)
sliceFrom(s, start) == SubSeq(s, start + 1, Len(s))

\* s.replace(/^p/, '') for a literal prefix p
dropPrefix(s, p) == IF startsWith(s, p) THEN sliceFrom(s, Len(p)) ELSE s

\* the index of the first character of s at or after index i that is not white space
RECURSIVE skipSpace(_, _)
skipSpace(s, i) == IF i < Len(s) /\ s[i + 1] \in WhiteSpace THEN skipSpace(s, i + 1) ELSE i

\* value.trim().replace(/^["']|["']$/g, '')
parseStringValue(value) ==
  LET t == trim(value)
      a == IF t # <<>> /\ t[1] \in Quotes THEN sliceFrom(t, 1) ELSE t
  IN  IF a # <<>> /\ a[Len(a)] \in Quotes THEN slice(a, 0, Len(a) - 1) ELSE a

\* the index of the parenthesis that closes the one opened before `start`,
\* counting every parenthesis; -1 when the text ends first
RECURSIVE closingFrom(_, _, _)
closingFrom(value, i, depth) ==
  IF i >= Len(value) THEN 0 - 1
  ELSE IF value[i + 1] = "(" THEN closingFrom(value, i + 1, depth + 1)
  ELSE IF value[i + 1] = ")"
       THEN IF depth = 1 THEN i ELSE closingFrom(value, i + 1, depth - 1)
  ELSE closingFrom(value, i + 1, depth)

\* the text between funcName( and the parenthesis that brings depth back to 0
extractFunctionContent(value, funcName) ==
  LET start == indexOf(value, funcName \o <<"(">>) + Len(funcName) + 1
      close == closingFrom(value, start, 1)
      end   == IF close = 0 - 1 THEN start ELSE close
  IN  slice(value, start, end)

\* let depth = 0; let inString = false; let stringChar = ''
ScanStart == [depth |-> 0, inString |-> FALSE, stringChar |-> ""]

\* one turn of the scanning loops on a character that is not a separator
ScanChar(st, char) ==
  IF char \in Quotes /\ ~st.inString
    THEN [st EXCEPT !.inString = TRUE, !.stringChar = char]
  ELSE IF char = st.stringChar /\ st.inString THEN [st EXCEPT !.inString = FALSE]
  ELSE IF ~st.inString /\ char = "(" THEN [st EXCEPT !.depth = @ + 1]
  ELSE IF ~st.inString /\ char = ")" THEN [st EXCEPT !.depth = @ - 1]
  ELSE st

\* char === sep && depth === 0, in the branch taken outside strings
Separates(st, char, sep) == ~st.inString /\ char = sep /\ st.depth = 0

\* the runs of str between separators, the run after the last one included
RECURSIVE splitFrom(_, _, _, _, _)
splitFrom(str, i, st, current, sep) ==
  IF i >= Len(str) THEN <<current>>
  ELSE IF Separates(st, str[i + 1], sep)
       THEN <<current>> \o splitFrom(str, i + 1, st, <<>>, sep)
  ELSE splitFrom(str, i + 1, ScanChar(st, str[i + 1]), Append(current, str[i + 1]), sep)

\* the last run is kept only if it is not blank
splitIfBranches(str) ==
  LET parts == splitFrom(str, 0, ScanStart, <<>>, ";")
  IN  IF trim(parts[Len(parts)]) # <<>> THEN parts ELSE SubSeq(parts, 1, Len(parts) - 1)

RECURSIVE findFrom(_, _, _, _)
findFrom(str, i, st, sep) ==
  IF i >= Len(str) THEN 0 - 1
  ELSE IF Separates(st, str[i + 1], sep) THEN i
  ELSE findFrom(str, i + 1, ScanChar(st, str[i + 1]), sep)

findColonInBranch(str) == findFrom(str, 0, ScanStart, ":")

\* (=|!=|>=|<=|>|<), in the order the alternatives are tried
Operators == << <<"=">>, <<"!", "=">>, <<">", "=">>, <<"<", "=">>, <<">">>, <<"<">> >>

ConditionTypes ==
  <<"equals", "notEquals", "greaterOrEqual", "lessOrEqual", "greaterThan", "lessThan">>

\* the length of the run of [\w-] characters that starts at index i
RECURSIVE nameRun(_, _)
nameRun(s, i) ==
  IF i < Len(s) /\ s[i + 1] \in WordChars \cup {"-"} THEN 1 + nameRun(s, i + 1) ELSE 0

\* the pattern with its alternatives in the order (=|>|<|!=|>=|<=)
compMatchShortFirst(s) ==
  LET n     == IF startsWith(s, <<"-", "-">>) THEN nameRun(s, 2) ELSE 0
      at    == skipSpace(s, 2 + n)
      fits  == {k \in 1..6 : /\ startsWith(sliceFrom(s, at), Operators[k])
                             /\ at + Len(Operators[k]) < Len(s)}
      short == {k \in fits : Len(Operators[k]) = 1}
      op    == IF short # {} THEN SetMin(short) ELSE SetMin(fits)
  IN  IF n = 0 \/ fits = {} THEN [matched |-> FALSE]
      ELSE [matched |-> TRUE,
            name    |-> slice(s, 0, 2 + n),
            op      |-> op,
            rest    |-> sliceFrom(s, skipSpace(s, at + Len(Operators[op])))]

\* trimmedStr.match(/^(--[\w-]+)\s*(=|!=|>=|<=|>|<)\s*(.+)$/): the groups, or
\* matched = FALSE.  The first alternative that leaves a character for (.+) wins.
compMatch(s) ==
  LET n    == IF startsWith(s, <<"-", "-">>) THEN nameRun(s, 2) ELSE 0
      at   == skipSpace(s, 2 + n)
      fits == {k \in 1..6 : /\ startsWith(sliceFrom(s, at), Operators[k])
                            /\ at + Len(Operators[k]) < Len(s)}
  IN  IF n = 0 \/ fits = {} THEN [matched |-> FALSE]
      ELSE [matched |-> TRUE,
            name    |-> slice(s, 0, 2 + n),
            op      |-> SetMin(fits),
            rest    |-> sliceFrom(s, skipSpace(s, at + Len(Operators[SetMin(fits)])))]

\* a comparand read as parseExpression reads a literal: true, false and null typed
comparandTyped(valueStr) ==
  IF valueStr \in {S_true, S_false} THEN Bool(valueStr = S_true)
  ELSE IF valueStr = S_null THEN Null
  ELSE IF StringToNumber(valueStr) = NaN THEN Str(parseStringValue(valueStr))
  ELSE StringToNumber(valueStr)

\* isNaN(Number(valueStr)) ? parseStringValue(valueStr) : Number(valueStr)
comparandOf(valueStr) ==
  IF StringToNumber(valueStr) = NaN THEN Str(parseStringValue(valueStr))
  ELSE StringToNumber(valueStr)

\* ' and ' looked for before ' or '
RECURSIVE parseConditionAndFirst(_)
parseConditionAndFirst(str) ==
  LET trimmedStr == trim(str)
      orIndex    == indexOf(trimmedStr, <<" ", "o", "r", " ">>)
      andIndex   == indexOf(trimmedStr, <<" ", "a", "n", "d", " ">>)
      m          == compMatch(trimmedStr)
  IN  IF andIndex # 0 - 1
        THEN And(<<parseConditionAndFirst(trim(slice(trimmedStr, 0, andIndex))),
                   parseConditionAndFirst(trim(sliceFrom(trimmedStr, andIndex + 5)))>>)
      ELSE IF orIndex # 0 - 1
        THEN Or(<<parseConditionAndFirst(trim(slice(trimmedStr, 0, orIndex))),
                  parseConditionAndFirst(trim(sliceFrom(trimmedStr, orIndex + 4)))>>)
      ELSE IF startsWith(trimmedStr, <<"n", "o", "t", " ">>)
        THEN Not(parseConditionAndFirst(sliceFrom(trimmedStr, 4)))
      ELSE IF m.matched
        THEN Relational(ConditionTypes[m.op], dropPrefix(m.name, <<"-", "-">>),
                        comparandOf(trim(m.rest)))
      ELSE Truthy(dropPrefix(trimmedStr, <<"-", "-">>))

\* only the left operand of a connective parsed further
RECURSIVE parseConditionShallow(_)
parseConditionShallow(str) ==
  LET trimmedStr == trim(str)
      orIndex    == indexOf(trimmedStr, <<" ", "o", "r", " ">>)
      andIndex   == indexOf(trimmedStr, <<" ", "a", "n", "d", " ">>)
      m          == compMatch(trimmedStr)
  IN  IF orIndex # 0 - 1
        THEN Or(<<parseConditionShallow(trim(slice(trimmedStr, 0, orIndex))),
                  Truthy(dropPrefix(trim(sliceFrom(trimmedStr, orIndex + 4)), <<"-", "-">>))>>)
      ELSE IF andIndex # 0 - 1
        THEN And(<<parseConditionShallow(trim(slice(trimmedStr, 0, andIndex))),
                   Truthy(dropPrefix(trim(sliceFrom(trimmedStr, andIndex + 5)), <<"-", "-">>))>>)
      ELSE IF startsWith(trimmedStr, <<"n", "o", "t", " ">>)
        THEN Not(parseConditionShallow(sliceFrom(trimmedStr, 4)))
      ELSE IF m.matched
        THEN Relational(ConditionTypes[m.op], dropPrefix(m.name, <<"-", "-">>),
                        comparandOf(trim(m.rest)))
      ELSE Truthy(dropPrefix(trimmedStr, <<"-", "-">>))

RECURSIVE parseCondition(_)
parseCondition(str) ==
  LET trimmedStr == trim(str)
      orIndex    == indexOf(trimmedStr, <<" ", "o", "r", " ">>)
      andIndex   == indexOf(trimmedStr, <<" ", "a", "n", "d", " ">>)
      m          == compMatch(trimmedStr)
  IN  IF orIndex # 0 - 1
        THEN Or(<<parseCondition(trim(slice(trimmedStr, 0, orIndex))),
                  parseCondition(trim(sliceFrom(trimmedStr, orIndex + 4)))>>)
      ELSE IF andIndex # 0 - 1
        THEN And(<<parseCondition(trim(slice(trimmedStr, 0, andIndex))),
                   parseCondition(trim(sliceFrom(trimmedStr, andIndex + 5)))>>)
      ELSE IF startsWith(trimmedStr, <<"n", "o", "t", " ">>)
        THEN Not(parseCondition(sliceFrom(trimmedStr, 4)))
      ELSE IF m.matched
        THEN Relational(ConditionTypes[m.op], dropPrefix(m.name, <<"-", "-">>),
                        comparandOf(trim(m.rest)))
      ELSE Truthy(dropPrefix(trimmedStr, <<"-", "-">>))

\* /^-?\d+(\.\d+)?$/.test(s)
IsNumeral(s) ==
  LET body == IF s # <<>> /\ s[1] = "-" THEN sliceFrom(s, 1) ELSE s
      dot  == indexOf(body, <<".">>)
  IN  IF dot = 0 - 1 THEN body # <<>> /\ AllDigits(body)
      ELSE /\ dot > 0
           /\ dot + 1 < Len(body)
           /\ AllDigits(slice(body, 0, dot))
           /\ AllDigits(sliceFrom(body, dot + 1))

\* parseInt(s, 10) for a text the numeral pattern accepts: the digits before the point
parseInt(s) ==
  LET body == IF s[1] = "-" THEN sliceFrom(s, 1) ELSE s
      dot  == indexOf(body, <<".">>)
  IN  SignedDigits(s[1] = "-", IF dot = 0 - 1 THEN body ELSE slice(body, 0, dot))

\* parseFloat(s) for a text the numeral pattern accepts
parseFloat(s) == SignedDigits(s[1] = "-", IF s[1] = "-" THEN sliceFrom(s, 1) ELSE s)

\* JSON.parse for the JSON texts the routes under check use; every other
\* text that starts with [ or { is taken to raise
JsonTexts ==
  << <<T_JsonEmpty, Obj(EmptyMap)>>,
     <<T_JsonNotFound, Obj(Map1(S_error, Str(S_NotFound)))>>,
     <<T_JsonList, Arr(<<Num(1), Num(2)>>)>> >>

JsonParse(text) ==
  IF \E k \in 1..Len(JsonTexts) : JsonTexts[k][1] = text
  THEN [ok |-> TRUE, value |-> JsonTexts[CHOOSE k \in 1..Len(JsonTexts) : JsonTexts[k][1] = text][2]]
  ELSE [ok |-> FALSE]

\* value.match(/^sql\s*\(\s*["'](.+?)["']\s*(?:,\s*(.+))?\s*\)$/s): what follows
\* the quote that ends group 1, when the text ends with a parenthesis:
\* blanks only, or blanks, a comma and the text of group 2
sqlTail(value, j) ==
  LET last  == Len(value) - 1
      comma == skipSpace(value, j + 1)
      arg   == skipSpace(value, comma + 1)
  IN  IF value[Len(value)] # ")" \/ j >= last THEN [matched |-> FALSE]
      ELSE IF comma = last THEN [matched |-> TRUE, argsStr |-> <<>>]
      ELSE IF value[comma + 1] = "," /\ comma + 1 < last
        THEN [matched |-> TRUE,
              argsStr |-> IF arg < last THEN slice(value, arg, last)
                          ELSE slice(value, last - 1, last)]
      ELSE [matched |-> FALSE]

sqlMatch(value) ==
  LET open  == skipSpace(value, 3)
      quote == skipSpace(value, open + 1)
      ends  == {j \in (quote + 2)..(Len(value) - 1) :
                  value[j + 1] \in Quotes /\ sqlTail(value, j).matched}
  IN  IF /\ open < Len(value) /\ value[open + 1] = "("
         /\ quote < Len(value) /\ value[quote + 1] \in Quotes
         /\ ends # {}
      THEN [matched |-> TRUE,
            query   |-> slice(value, quote + 1, SetMin(ends)),
            argsStr |-> sqlTail(value, SetMin(ends)).argsStr]
      ELSE [matched |-> FALSE]

RECURSIVE parseExpression(_)
RECURSIVE parseSqlExpression(_)
RECURSIVE parseFunctionArgs(_)
RECURSIVE parseIfExpression(_)
RECURSIVE parseParts(_, _, _)

\* a parse that takes an unquoted statement as written
parseSqlExpressionUnquoted(value) ==
  LET m == sqlMatch(value)
  IN  IF ~m.matched THEN Sql(trim(extractFunctionContent(value, S_sql)), <<>>)
      ELSE Sql(m.query, parseFunctionArgs(m.argsStr))

parseSqlExpression(value) ==
  LET m == sqlMatch(value)
  IN  IF ~m.matched THEN Sql(<<>>, <<>>)
      ELSE Sql(m.query, parseFunctionArgs(m.argsStr))

\* every run that is not blank is parsed, trimmed
parseFunctionArgs(argsStr) ==
  IF trim(argsStr) = <<>> THEN <<>>
  ELSE LET kept == SelectSeq(splitFrom(argsStr, 0, ScanStart, <<>>, ","),
                             LAMBDA run : trim(run) # <<>>)
       IN  [k \in 1..Len(kept) |-> parseExpression(trim(kept[k]))]

\* the loop over parts, from part k on, `expr` holding branches and elseValue so far
parseParts(parts, k, expr) ==
  IF k > Len(parts) THEN expr
  ELSE LET part       == parts[k]
           colonIndex == findColonInBranch(part)
       IN  IF startsWith(trim(part), <<"e", "l", "s", "e", ":">>)
             THEN parseParts(parts, k + 1,
                    IfElse(expr.branches, parseExpression(trim(sliceFrom(trim(part), 5)))))
           ELSE IF colonIndex # 0 - 1
             THEN parseParts(parts, k + 1,
                    [expr EXCEPT !.branches =
                       Append(@, Branch(parseCondition(trim(slice(part, 0, colonIndex))),
                                        parseExpression(trim(sliceFrom(part, colonIndex + 1)))))])
           ELSE parseParts(parts, k + 1, expr)

parseIfExpression(value) ==
  parseParts(splitIfBranches(extractFunctionContent(value, <<"i", "f">>)), 1, If(<<>>))

parseExpression(value) ==
  LET trimmedValue == trim(value)
      json         == JsonParse(trimmedValue)
  IN  IF startsWith(trimmedValue, <<"s", "q", "l", "(">>)
        THEN parseSqlExpression(trimmedValue)
      ELSE IF startsWith(trimmedValue, <<"p", "a", "r", "a", "m", "(">>)
        THEN ParamRef(dropPrefix(extractFunctionContent(trimmedValue, <<"p", "a", "r", "a", "m">>),
                                 <<":">>))
      ELSE IF startsWith(trimmedValue, <<"q", "u", "e", "r", "y", "(">>)
        THEN QueryRef(extractFunctionContent(trimmedValue, <<"q", "u", "e", "r", "y">>))
      ELSE IF startsWith(trimmedValue, <<"b", "o", "d", "y", "(">>)
        THEN BodyRef(extractFunctionContent(trimmedValue, <<"b", "o", "d", "y">>))
      ELSE IF startsWith(trimmedValue, <<"h", "e", "a", "d", "e", "r", "(">>)
        THEN HeaderRef(extractFunctionContent(trimmedValue, <<"h", "e", "a", "d", "e", "r">>))
      ELSE IF startsWith(trimmedValue, <<"v", "a", "r", "(">>)
        THEN VarRef(dropPrefix(extractFunctionContent(trimmedValue, <<"v", "a", "r">>),
                               <<"-", "-">>))
      ELSE IF startsWith(trimmedValue, <<"i", "f", "(">>)
        THEN parseIfExpression(trimmedValue)
      ELSE IF IsNumeral(trimmedValue) THEN Literal(parseFloat(trimmedValue))
      ELSE IF trimmedValue = S_true \/ trimmedValue = S_false
        THEN Literal(Bool(trimmedValue = S_true))
      ELSE IF trimmedValue = S_null THEN Literal(Null)
      ELSE IF (startsWith(trimmedValue, <<"[">>) \/ startsWith(trimmedValue, <<"{">>)) /\ json.ok
        THEN Json(json.value)
      ELSE Literal(Str(parseStringValue(trimmedValue)))

\* parseReturnAtRule: json(...) and html(...) wrap the body, anything else is a json body
parseReturnAtRule(params) ==
  LET p == trim(params)
  IN  IF startsWith(p, <<"j", "s", "o", "n", "(">>)
        THEN ReturnJson(parseExpression(extractFunctionContent(p, <<"j", "s", "o", "n">>)))
      ELSE IF startsWith(p, <<"h", "t", "m", "l", "(">>)
        THEN ReturnHtml(parseExpression(extractFunctionContent(p, <<"h", "t", "m", "l">>)))
      ELSE ReturnJson(parseExpression(p))

----------------------------------------------------------------------------
(* Direct calls of the parser *)

NumeralDigits == {"0", "1", "5"}

\* the runs of one to MaxDigits digits
DigitRuns == UNION {[1..k -> NumeralDigits] : k \in 1..MaxDigits}

\* the text -?digits(.digits)?, frac = <<>> for a numeral without a point
Numeral(neg, whole, frac) ==
  (IF neg THEN <<"-">> ELSE <<>>) \o whole \o (IF frac = <<>> THEN <<>> ELSE <<".">> \o frac)

Padded(text) == {text, <<" ">> \o text, text \o <<" ", " ">>}

LiteralTexts ==
  {Numeral(neg, whole, frac) :
     neg \in BOOLEAN, whole \in DigitRuns, frac \in DigitRuns \cup {<<>>}}
  \cup UNION {Padded(text) : text \in {S_true, S_false, S_null, S_1p5}}
  \cup {T_OnePoint, T_PointFive, T_Plus1, T_True, T_Quoted7, S_abc, <<>>}

\* parseExpression(value)
CallParseExpression ==
  /\ call.fn = "parseExpression"
  /\ ~call.returned
  /\ call' = [call EXCEPT !.returned = TRUE, !.result = parseExpression(call.args[1])]
  /\ UNCHANGED <<db, conns, opened, file, registered, appError, req>>

----------------------------------------------------------------------------
(* C16 *)

\* what evaluating the parsed expression yields, on a request that carries nothing
EvaluatedResult == evaluateExpression(call.result, NoContext, World).val

\* x is the number written `whole.frac` with the given sign
NumberIs(x, neg, whole, frac) ==
  /\ x.t \in {"number", "decimal"}
  /\ Scaled(x, Len(frac))
       = (IF neg THEN 0 - 1 ELSE 1) * (DigitsToNat(whole) * Pow10(Len(frac)) + DigitsToNat(frac))

\* C16: for every text matching -?digits(.digits)?, and for true, false and
\* null, parsing the text yields a Literal whose evaluation is the typed
\* value the text writes (that number, that boolean, null), never a string
C16_LiteralRoundTrip ==
  ReturnedFrom("parseExpression") =>
    /\ \A neg \in BOOLEAN, whole \in DigitRuns, frac \in DigitRuns \cup {<<>>} :
         call.args[1] = Numeral(neg, whole, frac) =>
           call.result.type = "literal" /\ NumberIs(EvaluatedResult, neg, whole, frac)
    /\ call.args[1] = S_true  => call.result.type = "literal" /\ EvaluatedResult = Bool(TRUE)
    /\ call.args[1] = S_false => call.result.type = "literal" /\ EvaluatedResult = Bool(FALSE)
    /\ call.args[1] = S_null  => call.result.type = "literal" /\ EvaluatedResult = Null

\* the text -10.50 was parsed to the number -10.5
C16_Witness ==
  /\ ReturnedFrom("parseExpression")
  /\ call.args[1] = <<"-", "1", "0", ".", "5", "0">>
  /\ call.result = Literal(Dec(TRUE, 10, <<"5">>))

----------------------------------------------------------------------------
(* C17 *)

\* function-call forms, each with the name of the function it calls
FunctionForms ==
  { <<T_BodyParen, S_body>>, <<T_BodyName, S_body>>, <<T_QueryParen, S_query>>,
    <<T_VarX, S_var>>, <<T_ParamId, S_param>>, <<T_HeaderRole, S_header>>,
    <<T_IfNested, S_if>>, <<T_JsonIf, S_json>>, <<T_JsonEmptyCall, S_json>>,
    <<T_HtmlSmile, S_html>> }

\* extractFunctionContent(value, funcName), as parseExpression and parseReturnAtRule call it
CallExtractFunctionContent ==
  /\ call.fn = "extractFunctionContent"
  /\ ~call.returned
  /\ call' = [call EXCEPT !.returned = TRUE,
                          !.result = extractFunctionContent(call.args[1], call.args[2])]
  /\ UNCHANGED <<db, conns, opened, file, registered, appError, req>>

\* the text after funcName( up to the parenthesis that closes it, parentheses
\* inside a quoted run not counted
BalancedContent(value, funcName) ==
  LET rest  == sliceFrom(value, Len(funcName) + 1)
      close == findFrom(rest, 0, ScanStart, ")")
  IN  slice(rest, 0, close)

\* C17: for every function-call form the extracted argument text is exactly
\* the text between the opening parenthesis and its matching closing
\* parenthesis, a parenthesis inside a single- or double-quoted run never
\* changing the depth
C17_QuoteAwareExtraction ==
  ReturnedFrom("extractFunctionContent") =>
    call.result = BalancedContent(call.args[1], call.args[2])

----------------------------------------------------------------------------
(* C18 *)

\* the relational and truthy terms conditions are written with, each with
\* the Condition it stands for
Atoms ==
  { [text |-> T_a, tree |-> Truthy(S_a)],
    [text |-> T_b, tree |-> Truthy(S_b)],
    [text |-> T_cIs1, tree |-> Equals(S_c, Num(1))] }

Terms == [neg : BOOLEAN, atom : Atoms]

\* a condition as written: terms, the k-th and the next joined by ops[k]
Fragments ==
  UNION { [terms : [1..n -> Terms], ops : [1..(n - 1) -> {"or", "and"}]] : n \in 1..MaxTerms }

TermText(term) == (IF term.neg THEN <<"n", "o", "t", " ">> ELSE <<>>) \o term.atom.text

Word(op) == IF op = "or" THEN <<" ", "o", "r", " ">> ELSE <<" ", "a", "n", "d", " ">>

RECURSIVE Render(_, _)
\* the text of a fragment
Render(terms, ops) ==
  IF ops = <<>> THEN TermText(terms[1])
  ELSE TermText(terms[1]) \o Word(ops[1]) \o Render(Tail(terms), Tail(ops))

\* a call made with the text of a fragment; `about` keeps the fragment
PendingAbout(fn, fragment) ==
  [fn |-> fn, args |-> <<Render(fragment.terms, fragment.ops)>>, returned |-> FALSE,
   result |-> Undefined, about |-> fragment]

ConditionTextCalls == {PendingAbout("parseCondition", f) : f \in Fragments}

\* parseCondition(str)
CallParseCondition ==
  /\ call.fn = "parseCondition"
  /\ ~call.returned
  /\ call' = [call EXCEPT !.returned = TRUE, !.result = parseCondition(call.args[1])]
  /\ UNCHANGED <<db, conns, opened, file, registered, appError, req>>

RECURSIVE TreeOf(_, _)
\* the tree the stated precedence gives a fragment: split at the first or,
\* failing that at the first and, failing that take off a leading not
TreeOf(terms, ops) ==
  LET n    == Len(terms)
      ors  == {k \in 1..Len(ops) : ops[k] = "or"}
      ands == {k \in 1..Len(ops) : ops[k] = "and"}
      at   == IF ors # {} THEN SetMin(ors) ELSE SetMin(ands)
      pair == <<TreeOf(SubSeq(terms, 1, at), SubSeq(ops, 1, at - 1)),
                TreeOf(SubSeq(terms, at + 1, n), SubSeq(ops, at + 1, n - 1))>>
  IN  IF ors # {} THEN Or(pair)
      ELSE IF ands # {} THEN And(pair)
      ELSE IF terms[1].neg THEN Not(terms[1].atom.tree)
      ELSE terms[1].atom.tree

\* C18: parseCondition splits on the first ' or ' before considering
\* ' and ', on the first ' and ' before a leading 'not ', and takes off
\* 'not ' before matching a relational pattern, building a 2-ary Or, a 2-ary
\* And or a unary Not over the parses of the substrings
C18_Precedence ==
  ReturnedFrom("parseCondition") => call.result = TreeOf(call.about.terms, call.about.ops)

\* 'not --a and --b or --c = 1' was parsed to Or(And(Not(a), b), c = 1)
C18_Witness ==
  /\ ReturnedFrom("parseCondition")
  /\ call.args[1] = <<"n", "o", "t", " ">> \o T_a \o Word("and") \o T_b \o Word("or") \o T_cIs1
  /\ call.result = Or(<<And(<<Not(Truthy(S_a)), Truthy(S_b)>>), Equals(S_c, Num(1))>>)

----------------------------------------------------------------------------
(* C19 *)

IfTexts == {T_IfTwoElse, T_IfOneElse, T_IfElseFirst, T_IfNoElse, T_IfNested}

\* the parts of the inner content of an if(...) that start with else:
ElseParts(text) ==
  LET parts == splitIfBranches(extractFunctionContent(text, S_if))
  IN  SelectSeq(parts, LAMBDA part : startsWith(trim(part), T_else))

\* C19: when the inner content of an if(...) holds more than one part
\* starting with else:, only the first such part becomes the conditional's
\* else expression; every later else: part is ignored
C19_FirstElse ==
  /\ ReturnedFrom("parseExpression")
  /\ call.args[1] \in IfTexts
  /\ Len(ElseParts(call.args[1])) > 1
  => /\ "elseValue" \in DOMAIN call.result
     /\ call.result.elseValue
          = parseExpression(trim(sliceFrom(trim(ElseParts(call.args[1])[1]), 5)))

----------------------------------------------------------------------------
(* C20 *)

RECURSIVE Leaves(_)
\* the truthy and relational conditions of a tree, left to right
Leaves(tree) ==
  CASE tree.type \in {"or", "and"} -> Leaves(tree.conditions[1]) \o Leaves(tree.conditions[2])
    [] tree.type = "not" -> Leaves(tree.condition)
    [] OTHER -> <<tree>>

RECURSIVE Layered(_)
\* every Or and And has two operands, no And has an Or operand and no Not
\* has an Or or And operand
Layered(tree) ==
  CASE tree.type \in {"or", "and"} ->
         /\ Len(tree.conditions) = 2
         /\ tree.type = "and" => \A k \in 1..2 : tree.conditions[k].type # "or"
         /\ \A k \in 1..2 : Layered(tree.conditions[k])
    [] tree.type = "not" -> tree.condition.type \notin {"or", "and"} /\ Layered(tree.condition)
    [] OTHER -> TRUE

\* the conditions the terms of the call's fragment stand for, in order
WrittenTerms == [k \in 1..Len(call.about.terms) |-> call.about.terms[k].atom.tree]

\* C20 as stated: a chain of more than two terms joined by connectives is
\* not representable, no tree produced by parseCondition combines all of
\* its terms
C20_ChainsNotRepresentable ==
  ReturnedFrom("parseCondition") /\ Len(call.about.terms) > 2 =>
    Leaves(call.result) # WrittenTerms

\* C20: a chain of terms joined by connectives, of any length, is parsed
\* into nested 2-ary nodes that combine all of its terms in the order
\* written; what no produced tree has is a grouping against the fixed
\* precedence: an Or under an And, or a connective under a Not
C20_ChainsNest ==
  ReturnedFrom("parseCondition") =>
    /\ Leaves(call.result) = WrittenTerms
    /\ Layered(call.result)

\* '--a or --b or --c = 1' was parsed to a tree holding all three terms
C20_Witness ==
  /\ ReturnedFrom("parseCondition")
  /\ call.args[1] = T_a \o Word("or") \o T_b \o Word("or") \o T_cIs1
  /\ call.result = Or(<<Truthy(S_a), Or(<<Truthy(S_b), Equals(S_c, Num(1))>>)>>)

----------------------------------------------------------------------------
(* C21 *)

\* the six operators as written, each with the Condition variant it names
OperatorNames ==
  { [text |-> <<"=">>,      type |-> "equals"],
    [text |-> <<"!", "=">>, type |-> "notEquals"],
    [text |-> <<">">>,      type |-> "greaterThan"],
    [text |-> <<"<">>,      type |-> "lessThan"],
    [text |-> <<">", "=">>, type |-> "greaterOrEqual"],
    [text |-> <<"<", "=">>, type |-> "lessOrEqual"] }

\* value texts, each with the comparand it writes: numeric texts, bare
\* words and quoted texts
ValueTexts ==
  { [text |-> T_10,       value |-> Num(10)],
    [text |-> T_Minus3,   value |-> Num(0 - 3)],
    [text |-> S_1p5,      value |-> Dec(FALSE, 1, S_5)],
    [text |-> S_admin,    value |-> Str(S_admin)],
    [text |-> S_true,     value |-> Str(S_true)],
    [text |-> S_null,     value |-> Str(S_null)],
    [text |-> T_QuotedXY, value |-> Str(S_xy)],
    [text |-> T_Single7,  value |-> Str(S_7)] }

\* '--a <op> value', with blanks around the operator or without
RelationAtoms ==
  { [text  |-> T_a \o gap \o o.text \o gap \o x.text,
     tree  |-> Relational(o.type, S_a, x.value),
     op    |-> o.text,
     value |-> x.text] :
      o \in OperatorNames, x \in ValueTexts, gap \in {<<>>, <<" ">>} }

RelationFragments ==
  { [terms |-> <<[neg |-> FALSE, atom |-> atom]>>, ops |-> <<>>] : atom \in RelationAtoms }

RelationCalls == {PendingAbout("parseCondition", f) : f \in RelationFragments}

\* the relational term a returned call was made with
Written == call.about.terms[1].atom

IsRelationCall ==
  /\ ReturnedFrom("parseCondition")
  /\ Len(call.about.terms) = 1
  /\ "op" \in DOMAIN Written

\* C21: in '--name <op> value' each of the six operators is recognised as
\* itself, !=, >= and <= never as =, > or < followed by leftover text, and
\* maps to its own variant; the comparand is a number when the value text
\* is numeric and otherwise the text as a string, surrounding quotes stripped
C21_Operators ==
  IsRelationCall =>
    /\ \A o \in OperatorNames : Written.op = o.text => call.result.type = o.type
    /\ call.result.varName = S_a
    /\ \A x \in ValueTexts : Written.value = x.text => call.result.value = x.value

\* '--a>=10' was parsed to GreaterOrEqual(a, 10)
C21_Witness ==
  /\ IsRelationCall
  /\ call.args[1] = T_a \o <<">", "=">> \o T_10
  /\ call.result = GreaterOrEqual(S_a, Num(10))
----------------------------------------------------------------------------
(* C22 *)

\* sql( fragments whose parentheses hold no quoted statement text
UnquotedSqlTexts == {T_SqlNone, T_SqlBare, T_SqlVarOnly, T_SqlSpaced}

SqlTexts == UnquotedSqlTexts \cup {T_SqlById}

\* the module state with no connection, and with a connection to a database
\* whose schema has or has not been applied
SqlWorlds ==
  {[db |-> d, file |-> [hasTable |-> h, rows |-> <<>>, seq |-> 0], log |-> <<>>] :
     d \in {NoDb, 1}, h \in BOOLEAN}

\* C22: parsing a sql( fragment that has no quoted statement text returns a
\* Query with an empty statement and no arguments, and evaluating that Query
\* returns an object with an error message, with or without a connection,
\* and throws nothing
C22_MalformedSql ==
  ReturnedFrom("parseExpression") /\ call.args[1] \in UnquotedSqlTexts =>
    /\ call.result = Sql(<<>>, <<>>)
    /\ \A w \in SqlWorlds :
         \E out \in {evaluateExpression(call.result, NoContext, w)} :
           /\ ~out.thrown
           /\ out.val = ErrorObject(IF w.db = NoDb THEN MsgNotConfigured ELSE MsgNoStatement)
           /\ out.w.file = w.file

\* sql(SELECT * FROM t) was parsed to the empty Query
C22_Witness ==
  /\ ReturnedFrom("parseExpression")
  /\ call.args[1] = T_SqlBare
  /\ call.result = Sql(Q_Empty, <<>>)
  /\ EvaluatedResult = ErrorObject(MsgNotConfigured)
----------------------------------------------------------------------------
(* C23 *)

\* fragments that are classified as string literals: no function call, no
\* numeral, no keyword, and for those starting with [ or { no valid JSON
StringTexts ==
  {S_abc, T_DoubleAbc, T_SingleAbc, T_TwoLayers, T_OpenOnly, T_CloseOnly, T_Mismatched,
   T_Inner, T_BraceBad, T_BracketQuote, T_PaddedQuoted}

\* the text without one layer of matching surrounding quotes
Unquoted(text) ==
  IF Len(text) >= 2 /\ text[1] \in Quotes /\ text[Len(text)] = text[1]
  THEN SubSeq(text, 2, Len(text) - 1)
  ELSE text

\* C23: a fragment classified as a string literal evaluates to the raw text
\* with one layer of matching surrounding quotes removed: the quotes are
\* removed only when the text starts and ends with the same quote character,
\* and a text with a quote at one end only is left unchanged
C23_MatchingQuotes ==
  ReturnedFrom("parseExpression") /\ call.args[1] \in StringTexts =>
    /\ call.result.type = "literal"
    /\ EvaluatedResult = Str(Unquoted(trim(call.args[1])))
----------------------------------------------------------------------------
(* C24 *)

\* C24: across any sequence of createApp, initDatabase, closeDatabase and
\* stopServer calls at most one database connection is open at any time, and
\* once closeDatabase has cleared the module's handle no connection that the
\* module opened is still open
C24_SingleConnection ==
  /\ Cardinality(conns) <= 1
  /\ db = NoDb => conns = {}
----------------------------------------------------------------------------
(* C25 *)

\* what the status expression of the running route evaluates to
StatusValue == evaluateExpression(RouteOf.status.value, req.ctx, World).val

\* C25: when a route's status expression evaluates to null or to a missing
\* value (an unbound variable, a conditional with no matching branch and no
\* else), the handler sets no status and the response keeps the default one
C25_NullKeepsDefault ==
  StatusResolved /\ RouteOf.status.type # "literal" /\ StatusValue \in {Null, Undefined}
    => req.res.status = Undefined
----------------------------------------------------------------------------
(* C26 *)

\* environments in which variable n holds a boolean, null, an array or an
\* object, and the environment in which it is unbound
UntypedEnvironments(n) ==
  {[NoContext EXCEPT !.variables = Map1(n, v)] :
     v \in {x \in VariableValues : x.t \in {"boolean", "null", "array", "object"}}}
  \cup {NoContext}

\* C26: every relational condition parseCondition produces carries a number
\* or a string as its comparand, never a boolean or null; so a parsed Equals
\* is false, and a parsed NotEquals true, whenever the variable holds a
\* boolean, null, an array, an object, or is unbound
C26_ComparandNumberOrString ==
  ReturnedFrom("parseCondition") =>
    \E leaves \in {Leaves(call.result)} :
      \A k \in 1..Len(leaves) :
        leaves[k].type # "truthy" =>
          /\ leaves[k].value.t \in {"number", "decimal", "string"}
          /\ leaves[k].type \in {"equals", "notEquals"} =>
               \A ctx \in UntypedEnvironments(leaves[k].varName) :
                 evaluateCondition(leaves[k], ctx) = (leaves[k].type = "notEquals")

\* '--a = true' was parsed to a comparison with the string true, which the
\* boolean true does not equal
C26_Witness ==
  /\ ReturnedFrom("parseCondition")
  /\ call.args[1] = T_a \o <<" ", "=", " ">> \o S_true
  /\ call.result = Equals(S_a, Str(S_true))
  /\ ~evaluateCondition(call.result, [NoContext EXCEPT !.variables = Map1(S_a, Bool(TRUE))])
----------------------------------------------------------------------------
(* C27 *)

\* the condition with Equals and NotEquals exchanged
Opposite(condition) ==
  [condition EXCEPT !.type = IF @ = "equals" THEN "notEquals" ELSE "equals"]

\* C27: for every environment, variable name and comparand, NotEquals(name, c)
\* evaluates to the exact negation of Equals(name, c); in particular
\* NotEquals is true when the variable is unbound
C27_ExactNegation ==
  ReturnedFrom("evaluateCondition") /\ call.args[1].type \in {"equals", "notEquals"} =>
    /\ call.result = Bool(~evaluateCondition(Opposite(call.args[1]), call.args[2]))
    /\ call.args[1].type = "notEquals" /\ call.args[1].varName \notin DOMAIN call.args[2].variables
         => call.result = Bool(TRUE)

\* NotEquals(a, 7) was evaluated where nothing is bound, and holds
C27_Witness ==
  /\ ReturnedFrom("evaluateCondition")
  /\ call.args = <<NotEquals(S_a, Num(7)), NoContext>>
  /\ call.result = Bool(TRUE)
----------------------------------------------------------------------------
(* C28 *)

RECURSIVE RunAssignments(_, _, _)
\* the loop over route.variables run to its end: val is the context it leaves
RunAssignments(variables, ctx, w) ==
  IF variables = <<>> THEN Returned(ctx, w)
  ELSE Propagate(evaluateExpression(variables[1].value, ctx, w),
         LAMBDA o : RunAssignments(Tail(variables),
                      [ctx EXCEPT !.variables = Put(@, variables[1].name, o.val)], o.w))

\* the status statement: val is the response it leaves
RunStatus(route, ctx, w) ==
  IF "status" \notin DOMAIN route THEN Returned(NoResponse, w)
  ELSE IF route.status.type = "literal"
    THEN Returned(IF IsFiniteNumber(route.status.value)
                  THEN SetStatus(NoResponse, route.status.value) ELSE NoResponse, w)
  ELSE Propagate(evaluateExpression(route.status.value, ctx, w),
         LAMBDA o : Returned(IF IsFiniteNumber(ToNumber(o.val))
                             THEN SetStatus(NoResponse, ToNumber(o.val)) ELSE NoResponse, o.w))

\* the handler of a route tree run in one piece on a request, from an empty
\* environment: the response and the database file it leaves
RunHandler(route, request, w) ==
  LET ctx0 == [BuildContext(request) EXCEPT !.variables = EmptyMap]
      a == RunAssignments(route.variables, ctx0, w)
      s == IF a.thrown THEN a ELSE RunStatus(route, a.val, a.w)
      r == IF s.thrown THEN s ELSE evaluateExpression(route.return.value, a.val, s.w)
  IN  [res  |-> IF a.thrown THEN NoResponse
                ELSE IF s.thrown \/ r.thrown THEN (IF s.thrown THEN NoResponse ELSE s.val)
                ELSE IF route.return.type = "json" THEN SendJson(s.val, r.val)
                ELSE SendHtml(s.val, r.val),
       file |-> r.w.file]

----------------------------------------------------------------------------
(* C29 *)

\* '--a <op> "x or y"' and the like: a comparison whose quoted comparand
\* holds a connective word.  terms and ops are the pieces of the text
\* around that word, each with the Condition it parses to on its own;
\* whole is the comparison as it is written
QuotedFragments ==
  { [terms |-> << [neg |-> FALSE,
                   atom |-> [text |-> T_a \o <<" ">> \o o.text \o <<" ", q, "x">>,
                             tree |-> Relational(o.type, S_a, Str(<<"x">>))]],
                  [neg |-> FALSE,
                   atom |-> [text |-> <<"y", q>>, tree |-> Truthy(<<"y", q>>)]] >>,
     ops   |-> <<word>>,
     whole |-> Relational(o.type, S_a, Str(<<"x">> \o Word(word) \o <<"y">>))] :
      o \in {x \in OperatorNames : x.type \in {"equals", "notEquals"}},
      q \in Quotes, word \in {"or", "and"} }

QuotedCalls == {PendingAbout("parseCondition", f) : f \in QuotedFragments}

\* C29: when ' or ' or ' and ' occurs only inside a quoted comparand, the
\* fragment parses to one relational leaf whose comparand is the whole
\* quoted string, not to an Or/And of two parts
C29_QuotedComparandIntact ==
  ReturnedFrom("parseCondition") /\ "whole" \in DOMAIN call.about =>
    call.result = call.about.whole
----------------------------------------------------------------------------
(* C30 *)

\* C30: createApp opens the database before it executes the schema and
\* executes the schema before it registers a route handler: a call with a
\* database and a schema configured registers handlers only with a
\* connection open and the schema applied, and registers none when the
\* schema raised; a call never meets executeSchema's 'Database not
\* initialized'; and a call with no database configured neither opens a
\* connection nor executes the schema
C30_StartupOrder ==
  [][\A hasDatabase, hasSchema \in BOOLEAN :
       CreateApp(hasDatabase, hasSchema) =>
         /\ appError' # MsgNotInitialized
         /\ hasDatabase => db' # NoDb /\ db' \notin conns /\ db' \in conns'
         /\ hasDatabase /\ hasSchema /\ registered' /\ ~registered => file'.hasTable
         /\ hasDatabase /\ hasSchema /\ appError' # <<>> =>
              file' = file /\ registered' = registered
         /\ ~hasDatabase => UNCHANGED <<db, conns, opened, file>>]_vars

\* createApp has opened the first connection, applied the schema and
\* registered the handlers
C30_Witness ==
  /\ registered
  /\ appError = <<>>
  /\ db = 1
  /\ conns = {1}
  /\ file = [hasTable |-> TRUE, rows |-> <<Row(1, Str(S_ann))>>, seq |-> 1]
  /\ req = NoActivation

----------------------------------------------------------------------------
(* The specification of the direct calls *)

UnitInit ==
  /\ Loaded
  /\ \/ call \in ConditionCalls
     \/ call \in HeaderCalls
     \/ call \in {Pending("parseExpression", <<text>>) : text \in LiteralTexts \cup IfTexts \cup SqlTexts \cup StringTexts}
     \/ call \in {Pending("extractFunctionContent", form) : form \in FunctionForms}
     \/ call \in ConditionTextCalls
     \/ call \in RelationCalls
     \/ call \in QuotedCalls

UnitNext ==
  \/ CallEvaluateCondition
  \/ CallEvaluateExpression
  \/ CallParseExpression
  \/ CallExtractFunctionContent
  \/ CallParseCondition

UnitSpec == UnitInit /\ [][UnitNext]_vars

====
